---- MODULE Spec2Model ----
(***************************************************************************)
(* Block-Talk: the UserRegistration contract (identity registry and        *)
(* friend-request ledger, contracts/User_registration.sol) and the         *)
(* status-tracking MessageStorage contract that consults it.               *)
(*                                                                         *)
(* Every public function is one action: one transaction, executed          *)
(* atomically.  A transaction whose require fails reverts: storage is left *)
(* as it was and the revert reason is recorded in tx, the receipt of the   *)
(* last transaction (function, revert reason or OK, emitted events).       *)
(***************************************************************************)
EXTENDS Integers, Sequences, FiniteSets, TLC

\* ---------------------------------------------------------------- domains
\* Externally owned accounts that submit transactions (msg.sender).
Wallets == {1, 2, 3}
\* address(0): never a msg.sender, but a possible argument.
ZeroAddress == 0
Addr == Wallets \cup {ZeroAddress}

\* Longest accepted username, in bytes.
MaxNameLen == 32

\* Usernames are byte strings.
NoName == << >>
Alice == <<1>>
Bob == <<2>>
Carol == [i \in 1..MaxNameLen |-> 3]
TooLong == [i \in 1..(MaxNameLen + 1) |-> 4]
Names == {NoName, Alice, Bob, Carol, TooLong}

OK == "ok"

VARIABLES
    userList,           \* address -> User {name, userAddress, friendList}
    usernameTaken,      \* username -> bool
    usernameToAddress,  \* username -> address
    sentRequests,       \* address -> address[] : requests sent by a user
    pendingRequests,    \* address -> address[] : requests received by a user
    allMessages,        \* chat code -> Message[]
    readReceipts,       \* chat code -> message index -> read timestamp
    now,                \* block.timestamp
    tx,                 \* receipt of the last transaction
    client,             \* last computation of the client's encryption utilities
    page                \* React state of the chat page (src/pages/ChatPage.jsx)

registry == <<userList, usernameTaken, usernameToAddress, sentRequests, pendingRequests>>
messages == <<allMessages, readReceipts>>
vars == <<userList, usernameTaken, usernameToAddress, sentRequests, pendingRequests,
          allMessages, readReceipts, now, tx, client, page>>

Range(s) == {s[i] : i \in 1..Len(s)}

Event(name, args) == [event |-> name, args |-> args]
Receipt(op, err, logs) == [op |-> op, err |-> err, logs |-> logs]

\* A failed require: the whole transaction is rolled back.
Revert(op, err) ==
    /\ tx' = Receipt(op, err, << >>)
    /\ UNCHANGED <<registry, messages, now, client, page>>

\* ------------------------------------------------- UserRegistration helpers
\* bytes(userList[a].name).length != 0
userExists(a) == Len(userList[a].name) # 0

_exists(arr, user) == \E i \in 1..Len(arr) : arr[i] = user

_isAlreadyFriend(user, friendKey) ==
    \E i \in 1..Len(userList[user].friendList) : userList[user].friendList[i] = friendKey

areFriends(user1, user2) ==
    _isAlreadyFriend(user1, user2) /\ _isAlreadyFriend(user2, user1)

\* Variant: pops the array without first moving the last element into place.
_removeRequest_PopOnly(arr, user) ==
    IF \E i \in 1..Len(arr) : arr[i] = user
    THEN SubSeq(arr, 1, Len(arr) - 1)
    ELSE arr

\* Removes the first occurrence of user: the last element is moved into its
\* place and the array is shortened by one.
_removeRequest(arr, user) ==
    IF \E i \in 1..Len(arr) : arr[i] = user
    THEN LET i == CHOOSE k \in 1..Len(arr) :
                      arr[k] = user /\ \A j \in 1..(k - 1) : arr[j] # user
         IN SubSeq([arr EXCEPT ![i] = arr[Len(arr)]], 1, Len(arr) - 1)
    ELSE arr

\* Variant: shortens the list without first moving the last friend into place.
_removeFriend_PopOnly(friends, friendKey) ==
    IF \E i \in 1..Len(friends) : friends[i] = friendKey
    THEN SubSeq(friends, 1, Len(friends) - 1)
    ELSE friends

_removeFriend(friends, friendKey) ==
    IF \E i \in 1..Len(friends) : friends[i] = friendKey
    THEN LET i == CHOOSE k \in 1..Len(friends) :
                      friends[k] = friendKey /\ \A j \in 1..(k - 1) : friends[j] # friendKey
         IN SubSeq([friends EXCEPT ![i] = friends[Len(friends)]], 1, Len(friends) - 1)
    ELSE friends

_addFriend(list, user, friendKey) ==
    [list EXCEPT ![user].friendList = Append(@, friendKey)]

\* --------------------------------------------------- UserRegistration calls
\* Variant: no check that the username is free.
createAccountErr_NoTakenCheck(sender, name) ==
    IF Len(userList[sender].name) # 0 THEN "User already exists!"
    ELSE IF ~(Len(name) > 0) THEN "Username cannot be empty!"
    ELSE IF ~(Len(name) <= MaxNameLen) THEN "Username too long!"
    ELSE OK

\* Variant: the check for an existing record comes last.
createAccountErr_ExistsLast(sender, name) ==
    IF ~(Len(name) > 0) THEN "Username cannot be empty!"
    ELSE IF ~(Len(name) <= MaxNameLen) THEN "Username too long!"
    ELSE IF usernameTaken[name] THEN "Username already taken!"
    ELSE IF Len(userList[sender].name) # 0 THEN "User already exists!"
    ELSE OK

createAccountErr(sender, name) ==
    IF Len(userList[sender].name) # 0 THEN "User already exists!"
    ELSE IF ~(Len(name) > 0) THEN "Username cannot be empty!"
    ELSE IF ~(Len(name) <= MaxNameLen) THEN "Username too long!"
    ELSE IF usernameTaken[name] THEN "Username already taken!"
    ELSE OK

\* Variant: the username is marked taken but not entered in the index.
createAccount_NoIndex(sender, name) ==
    LET err == createAccountErr(sender, name) IN
    IF err = OK
    THEN /\ userList' = [userList EXCEPT ![sender] =
                            [name |-> name, userAddress |-> sender, friendList |-> << >>]]
         /\ usernameTaken' = [usernameTaken EXCEPT ![name] = TRUE]
         /\ tx' = Receipt("createAccount", OK, <<Event("UserRegistered", <<sender, name>>)>>)
         /\ UNCHANGED <<usernameToAddress, sentRequests, pendingRequests, messages, now, client, page>>
    ELSE Revert("createAccount", err)

createAccount(sender, name) ==
    LET err == createAccountErr(sender, name) IN
    IF err = OK
    THEN /\ userList' = [userList EXCEPT ![sender] =
                            [name |-> name, userAddress |-> sender, friendList |-> << >>]]
         /\ usernameTaken' = [usernameTaken EXCEPT ![name] = TRUE]
         /\ usernameToAddress' = [usernameToAddress EXCEPT ![name] = sender]
         /\ tx' = Receipt("createAccount", OK, <<Event("UserRegistered", <<sender, name>>)>>)
         /\ UNCHANGED <<sentRequests, pendingRequests, messages, now, client, page>>
    ELSE Revert("createAccount", err)

removeFriendErr(sender, friendKey) ==
    IF ~userExists(sender) THEN "Create an account first!"
    ELSE IF ~userExists(friendKey) THEN "Friend not registered!"
    ELSE IF ~(sender # friendKey) THEN "Cannot remove yourself!"
    ELSE IF ~_isAlreadyFriend(sender, friendKey) THEN "Not friends yet!"
    ELSE OK

\* Variant: removes the friend from the caller's list only.
removeFriend_OneSided(sender, friendKey) ==
    LET err == removeFriendErr(sender, friendKey) IN
    IF err = OK
    THEN /\ userList' = [userList EXCEPT ![sender].friendList = _removeFriend(@, friendKey)]
         /\ tx' = Receipt("removeFriend", OK, <<Event("FriendRemoved", <<sender, friendKey>>)>>)
         /\ UNCHANGED <<usernameTaken, usernameToAddress, sentRequests, pendingRequests,
                        messages, now, client, page>>
    ELSE Revert("removeFriend", err)

\* Variant: the caller's whole friend list is deleted.
removeFriend_ClearsList(sender, friendKey) ==
    LET err == removeFriendErr(sender, friendKey) IN
    IF err = OK
    THEN /\ userList' =
               LET one == [userList EXCEPT ![sender].friendList = << >>]
               IN [one EXCEPT ![friendKey].friendList = _removeFriend(@, sender)]
         /\ tx' = Receipt("removeFriend", OK, <<Event("FriendRemoved", <<sender, friendKey>>)>>)
         /\ UNCHANGED <<usernameTaken, usernameToAddress, sentRequests, pendingRequests,
                        messages, now, client, page>>
    ELSE Revert("removeFriend", err)

removeFriend(sender, friendKey) ==
    LET err == removeFriendErr(sender, friendKey) IN
    IF err = OK
    THEN /\ userList' =
               LET one == [userList EXCEPT ![sender].friendList = _removeFriend(@, friendKey)]
               IN [one EXCEPT ![friendKey].friendList = _removeFriend(@, sender)]
         /\ tx' = Receipt("removeFriend", OK, <<Event("FriendRemoved", <<sender, friendKey>>)>>)
         /\ UNCHANGED <<usernameTaken, usernameToAddress, sentRequests, pendingRequests,
                        messages, now, client, page>>
    ELSE Revert("removeFriend", err)

\* Variant: no already-friends guard.
sendFriendRequestErr_NoFriendCheck(sender, to) ==
    IF ~userExists(sender) THEN "You must register first!"
    ELSE IF ~userExists(to) THEN "User not registered!"
    ELSE IF ~(sender # to) THEN "Cannot send request to yourself!"
    ELSE IF _exists(sentRequests[sender], to) THEN "Request already sent!"
    ELSE IF _exists(pendingRequests[sender], to) THEN "User already sent you a request!"
    ELSE OK

\* Variant: no guard against a request pending in the other direction.
sendFriendRequestErr_NoReciprocalCheck(sender, to) ==
    IF ~userExists(sender) THEN "You must register first!"
    ELSE IF ~userExists(to) THEN "User not registered!"
    ELSE IF ~(sender # to) THEN "Cannot send request to yourself!"
    ELSE IF _isAlreadyFriend(sender, to) THEN "Already friends!"
    ELSE IF _exists(sentRequests[sender], to) THEN "Request already sent!"
    ELSE OK

\* Variant: no check that the recipient is registered.
sendFriendRequestErr_NoRecipientCheck(sender, to) ==
    IF ~userExists(sender) THEN "You must register first!"
    ELSE IF ~(sender # to) THEN "Cannot send request to yourself!"
    ELSE IF _isAlreadyFriend(sender, to) THEN "Already friends!"
    ELSE IF _exists(sentRequests[sender], to) THEN "Request already sent!"
    ELSE IF _exists(pendingRequests[sender], to) THEN "User already sent you a request!"
    ELSE OK

\* Variant: no guard against a request that is already pending.
sendFriendRequestErr_NoDuplicateCheck(sender, to) ==
    IF ~userExists(sender) THEN "You must register first!"
    ELSE IF ~userExists(to) THEN "User not registered!"
    ELSE IF ~(sender # to) THEN "Cannot send request to yourself!"
    ELSE IF _isAlreadyFriend(sender, to) THEN "Already friends!"
    ELSE IF _exists(pendingRequests[sender], to) THEN "User already sent you a request!"
    ELSE OK

sendFriendRequestErr(sender, to) ==
    IF ~userExists(sender) THEN "You must register first!"
    ELSE IF ~userExists(to) THEN "User not registered!"
    ELSE IF ~(sender # to) THEN "Cannot send request to yourself!"
    ELSE IF _isAlreadyFriend(sender, to) THEN "Already friends!"
    ELSE IF _exists(sentRequests[sender], to) THEN "Request already sent!"
    ELSE IF _exists(pendingRequests[sender], to) THEN "User already sent you a request!"
    ELSE OK

\* Variant: the request is entered in the sender's index before the guard
\* against a reciprocal request, which returns instead of reverting.
sendFriendRequest_WriteBeforeGuard(sender, to) ==
    LET err == sendFriendRequestErr(sender, to) IN
    IF err = OK
    THEN /\ sentRequests' = [sentRequests EXCEPT ![sender] = Append(@, to)]
         /\ pendingRequests' = [pendingRequests EXCEPT ![to] = Append(@, sender)]
         /\ tx' = Receipt("sendFriendRequest", OK,
                          <<Event("FriendRequestSent", <<sender, to>>)>>)
         /\ UNCHANGED <<userList, usernameTaken, usernameToAddress, messages, now, client, page>>
    ELSE IF err = "User already sent you a request!"
    THEN /\ sentRequests' = [sentRequests EXCEPT ![sender] = Append(@, to)]
         /\ tx' = Receipt("sendFriendRequest", err, << >>)
         /\ UNCHANGED <<userList, usernameTaken, usernameToAddress, pendingRequests,
                        messages, now, client, page>>
    ELSE Revert("sendFriendRequest", err)

\* Variant: the request is entered in the sender's index only.
sendFriendRequest_SentIndexOnly(sender, to) ==
    LET err == sendFriendRequestErr(sender, to) IN
    IF err = OK
    THEN /\ sentRequests' = [sentRequests EXCEPT ![sender] = Append(@, to)]
         /\ tx' = Receipt("sendFriendRequest", OK,
                          <<Event("FriendRequestSent", <<sender, to>>)>>)
         /\ UNCHANGED <<userList, usernameTaken, usernameToAddress, pendingRequests,
                        messages, now, client, page>>
    ELSE Revert("sendFriendRequest", err)

sendFriendRequest(sender, to) ==
    LET err == sendFriendRequestErr(sender, to) IN
    IF err = OK
    THEN /\ sentRequests' = [sentRequests EXCEPT ![sender] = Append(@, to)]
         /\ pendingRequests' = [pendingRequests EXCEPT ![to] = Append(@, sender)]
         /\ tx' = Receipt("sendFriendRequest", OK,
                          <<Event("FriendRequestSent", <<sender, to>>)>>)
         /\ UNCHANGED <<userList, usernameTaken, usernameToAddress, messages, now, client, page>>
    ELSE Revert("sendFriendRequest", err)

\* Variant: the guard looks the request up in the caller's sent index as well,
\* so the sender of a request can accept it.
acceptFriendRequestErr_SenderAccepts(sender, from) ==
    IF ~(_exists(pendingRequests[sender], from) \/ _exists(sentRequests[sender], from))
    THEN "No request from this user!"
    ELSE IF _isAlreadyFriend(sender, from) THEN "Already friends!"
    ELSE OK

acceptFriendRequestErr(sender, from) ==
    IF ~_exists(pendingRequests[sender], from) THEN "No request from this user!"
    ELSE IF _isAlreadyFriend(sender, from) THEN "Already friends!"
    ELSE OK

\* Variant: both _addFriend calls add to the caller's list.
acceptFriendRequest_AddsCallerTwice(sender, from) ==
    LET err == acceptFriendRequestErr(sender, from) IN
    IF err = OK
    THEN /\ userList' = _addFriend(_addFriend(userList, sender, from), sender, from)
         /\ pendingRequests' = [pendingRequests EXCEPT ![sender] = _removeRequest(@, from)]
         /\ sentRequests' = [sentRequests EXCEPT ![from] = _removeRequest(@, sender)]
         /\ tx' = Receipt("acceptFriendRequest", OK,
                          <<Event("FriendRequestAccepted", <<from, sender>>),
                            Event("FriendAdded", <<sender, from>>)>>)
         /\ UNCHANGED <<usernameTaken, usernameToAddress, messages, now, client, page>>
    ELSE Revert("acceptFriendRequest", err)

\* Variant: leaves the request in the requester's sent index.
acceptFriendRequest_KeepsSent(sender, from) ==
    LET err == acceptFriendRequestErr(sender, from) IN
    IF err = OK
    THEN /\ userList' = _addFriend(_addFriend(userList, sender, from), from, sender)
         /\ pendingRequests' = [pendingRequests EXCEPT ![sender] = _removeRequest(@, from)]
         /\ tx' = Receipt("acceptFriendRequest", OK,
                          <<Event("FriendRequestAccepted", <<from, sender>>),
                            Event("FriendAdded", <<sender, from>>)>>)
         /\ UNCHANGED <<usernameTaken, usernameToAddress, sentRequests, messages, now,
                        client, page>>
    ELSE Revert("acceptFriendRequest", err)

acceptFriendRequest(sender, from) ==
    LET err == acceptFriendRequestErr(sender, from) IN
    IF err = OK
    THEN /\ userList' = _addFriend(_addFriend(userList, sender, from), from, sender)
         /\ pendingRequests' = [pendingRequests EXCEPT ![sender] = _removeRequest(@, from)]
         /\ sentRequests' = [sentRequests EXCEPT ![from] = _removeRequest(@, sender)]
         /\ tx' = Receipt("acceptFriendRequest", OK,
                          <<Event("FriendRequestAccepted", <<from, sender>>),
                            Event("FriendAdded", <<sender, from>>)>>)
         /\ UNCHANGED <<usernameTaken, usernameToAddress, messages, now, client, page>>
    ELSE Revert("acceptFriendRequest", err)

cancelFriendRequestErr(sender, to) ==
    IF ~_exists(sentRequests[sender], to) THEN "No sent request to this user!"
    ELSE OK

\* Variant: withdraws the request from the sender's index only.
cancelFriendRequest_OneSided(sender, to) ==
    LET err == cancelFriendRequestErr(sender, to) IN
    IF err = OK
    THEN /\ sentRequests' = [sentRequests EXCEPT ![sender] = _removeRequest(@, to)]
         /\ tx' = Receipt("cancelFriendRequest", OK, << >>)
         /\ UNCHANGED <<userList, usernameTaken, usernameToAddress, pendingRequests,
                        messages, now, client, page>>
    ELSE Revert("cancelFriendRequest", err)

cancelFriendRequest(sender, to) ==
    LET err == cancelFriendRequestErr(sender, to) IN
    IF err = OK
    THEN /\ sentRequests' = [sentRequests EXCEPT ![sender] = _removeRequest(@, to)]
         /\ pendingRequests' = [pendingRequests EXCEPT ![to] = _removeRequest(@, sender)]
         /\ tx' = Receipt("cancelFriendRequest", OK, << >>)
         /\ UNCHANGED <<userList, usernameTaken, usernameToAddress, messages, now, client, page>>
    ELSE Revert("cancelFriendRequest", err)

rejectFriendRequestErr(sender, from) ==
    IF ~_exists(pendingRequests[sender], from) THEN "No request from this user!"
    ELSE OK

\* Variant: emits no FriendRequestRejected event.
rejectFriendRequest_Silent(sender, from) ==
    LET err == rejectFriendRequestErr(sender, from) IN
    IF err = OK
    THEN /\ pendingRequests' = [pendingRequests EXCEPT ![sender] = _removeRequest(@, from)]
         /\ sentRequests' = [sentRequests EXCEPT ![from] = _removeRequest(@, sender)]
         /\ tx' = Receipt("rejectFriendRequest", OK, << >>)
         /\ UNCHANGED <<userList, usernameTaken, usernameToAddress, messages, now, client, page>>
    ELSE Revert("rejectFriendRequest", err)

\* Variant: clears the recipient's pending index only.
rejectFriendRequest_OneSided(sender, from) ==
    LET err == rejectFriendRequestErr(sender, from) IN
    IF err = OK
    THEN /\ pendingRequests' = [pendingRequests EXCEPT ![sender] = _removeRequest(@, from)]
         /\ tx' = Receipt("rejectFriendRequest", OK,
                          <<Event("FriendRequestRejected", <<from, sender>>)>>)
         /\ UNCHANGED <<userList, usernameTaken, usernameToAddress, sentRequests,
                        messages, now, client, page>>
    ELSE Revert("rejectFriendRequest", err)

rejectFriendRequest(sender, from) ==
    LET err == rejectFriendRequestErr(sender, from) IN
    IF err = OK
    THEN /\ pendingRequests' = [pendingRequests EXCEPT ![sender] = _removeRequest(@, from)]
         /\ sentRequests' = [sentRequests EXCEPT ![from] = _removeRequest(@, sender)]
         /\ tx' = Receipt("rejectFriendRequest", OK,
                          <<Event("FriendRequestRejected", <<from, sender>>)>>)
         /\ UNCHANGED <<userList, usernameTaken, usernameToAddress, messages, now, client, page>>
    ELSE Revert("rejectFriendRequest", err)

\* ------------------------------------------------------------ MessageStorage
\* Longest channel the model lets grow, and the last clock value it reaches.
MaxMsgs == 2
MaxTime == 2

\* Message.status
Sent == 0
Delivered == 1
Read == 2

\* keccak256 over the 40 packed bytes of two addresses.  The hash is taken to be
\* collision free: the digest stands for the ordered pair that was hashed.
keccak256(first, second) == <<first, second>>

\* Variant: the code is made from the first address alone.
_getChatCode_FirstOnly(pubkey1, pubkey2) == keccak256(pubkey1, pubkey1)

\* Variant: hashes the two addresses in the order given.
_getChatCode_Unordered(pubkey1, pubkey2) == keccak256(pubkey1, pubkey2)

_getChatCode(pubkey1, pubkey2) ==
    IF pubkey1 < pubkey2
    THEN keccak256(pubkey1, pubkey2)
    ELSE keccak256(pubkey2, pubkey1)

ChatCodes == {_getChatCode(a, b) : a \in Addr, b \in Addr}

\* IUserRegistration.areFriends, as MessageStorage calls it.
_areFriends(user1, user2) == areFriends(user1, user2)

\* allMessages[chatCode][index], index counted from 0 as in the contract.
MessageAt(chatCode, index) == allMessages[chatCode][index + 1]

\* event MessageSent: from, to and chatCode are indexed topics.
MessageSent(from, to, chatCode, message, msgType, timestamp, isEncrypted) ==
    Event("MessageSent", <<from, to, chatCode, message, msgType, timestamp, isEncrypted>>)

\* Variant: no friendship guard.
sendMessageErr_NoFriendCheck(sender, friendKey, msg, msgType) ==
    IF ~(friendKey # ZeroAddress) THEN "Invalid recipient address!"
    ELSE IF ~(friendKey # sender) THEN "Cannot send message to yourself!"
    ELSE IF ~(msg # "") THEN "Message cannot be empty!"
    ELSE IF ~userExists(sender) THEN "Sender not registered!"
    ELSE IF ~userExists(friendKey) THEN "Recipient not registered!"
    ELSE IF ~(msgType = "text" \/ msgType = "file") THEN "Invalid message type!"
    ELSE OK

\* Variant: any message type is accepted.
sendMessageErr_NoTypeCheck(sender, friendKey, msg, msgType) ==
    IF ~(friendKey # ZeroAddress) THEN "Invalid recipient address!"
    ELSE IF ~(friendKey # sender) THEN "Cannot send message to yourself!"
    ELSE IF ~(msg # "") THEN "Message cannot be empty!"
    ELSE IF ~userExists(sender) THEN "Sender not registered!"
    ELSE IF ~userExists(friendKey) THEN "Recipient not registered!"
    ELSE IF ~_areFriends(sender, friendKey) THEN "Users must be friends to send messages!"
    ELSE OK

sendMessageErr(sender, friendKey, msg, msgType) ==
    IF ~(friendKey # ZeroAddress) THEN "Invalid recipient address!"
    ELSE IF ~(friendKey # sender) THEN "Cannot send message to yourself!"
    ELSE IF ~(msg # "") THEN "Message cannot be empty!"
    ELSE IF ~userExists(sender) THEN "Sender not registered!"
    ELSE IF ~userExists(friendKey) THEN "Recipient not registered!"
    ELSE IF ~_areFriends(sender, friendKey) THEN "Users must be friends to send messages!"
    ELSE IF ~(msgType = "text" \/ msgType = "file") THEN "Invalid message type!"
    ELSE OK

\* Variant: writes at the last occupied index instead of pushing.
sendMessage_OverwritesLast(sender, friendKey, msg, msgType, isEncrypted) ==
    LET err == sendMessageErr(sender, friendKey, msg, msgType)
        chatCode == _getChatCode(sender, friendKey)
        newMsg == [sender |-> sender, timestamp |-> now, message |-> msg,
                   msgType |-> msgType, isEncrypted |-> isEncrypted, status |-> Sent]
    IN
    IF err = OK
    THEN /\ allMessages' =
               [allMessages EXCEPT ![chatCode] =
                   IF @ = << >> THEN <<newMsg>> ELSE [@ EXCEPT ![Len(@)] = newMsg]]
         /\ tx' = Receipt("sendMessage", OK,
                          <<MessageSent(sender, friendKey, chatCode, msg, msgType,
                                        now, isEncrypted)>>)
         /\ UNCHANGED <<registry, readReceipts, now, client, page>>
    ELSE Revert("sendMessage", err)

sendMessage(sender, friendKey, msg, msgType, isEncrypted) ==
    LET err == sendMessageErr(sender, friendKey, msg, msgType)
        chatCode == _getChatCode(sender, friendKey)
        newMsg == [sender |-> sender, timestamp |-> now, message |-> msg,
                   msgType |-> msgType, isEncrypted |-> isEncrypted, status |-> Sent]
    IN
    IF err = OK
    THEN /\ allMessages' = [allMessages EXCEPT ![chatCode] = Append(@, newMsg)]
         /\ tx' = Receipt("sendMessage", OK,
                          <<MessageSent(sender, friendKey, chatCode, msg, msgType,
                                        now, isEncrypted)>>)
         /\ UNCHANGED <<registry, readReceipts, now, client, page>>
    ELSE Revert("sendMessage", err)

\* Variant: no check that the message was sent by the counterparty.
markMessageAsReadErr_NoSenderCheck(sender, friendKey, messageIndex) ==
    LET chatCode == _getChatCode(sender, friendKey) IN
    IF ~(messageIndex < Len(allMessages[chatCode])) THEN "Message index out of range"
    ELSE IF ~(MessageAt(chatCode, messageIndex).status < Read)
         THEN "Message already marked as read"
    ELSE OK

\* Variant: the status guard is off by one (status <= 2).
markMessageAsReadErr_OffByOne(sender, friendKey, messageIndex) ==
    LET chatCode == _getChatCode(sender, friendKey) IN
    IF ~(messageIndex < Len(allMessages[chatCode])) THEN "Message index out of range"
    ELSE IF ~(MessageAt(chatCode, messageIndex).sender = friendKey)
         THEN "Can only mark messages from friend as read"
    ELSE IF ~(MessageAt(chatCode, messageIndex).status <= Read)
         THEN "Message already marked as read"
    ELSE OK

markMessageAsReadErr(sender, friendKey, messageIndex) ==
    LET chatCode == _getChatCode(sender, friendKey) IN
    IF ~(messageIndex < Len(allMessages[chatCode])) THEN "Message index out of range"
    ELSE IF ~(MessageAt(chatCode, messageIndex).sender = friendKey)
         THEN "Can only mark messages from friend as read"
    ELSE IF ~(MessageAt(chatCode, messageIndex).status < Read)
         THEN "Message already marked as read"
    ELSE OK

\* Variant: the status is set but no read receipt is recorded.
markMessageAsRead_NoReceipt(sender, friendKey, messageIndex) ==
    LET err == markMessageAsReadErr(sender, friendKey, messageIndex)
        chatCode == _getChatCode(sender, friendKey)
    IN
    IF err = OK
    THEN /\ allMessages' = [allMessages EXCEPT ![chatCode][messageIndex + 1].status = Read]
         /\ tx' = Receipt("markMessageAsRead", OK,
                          <<Event("MessageStatusUpdated",
                                  <<chatCode, messageIndex, sender, Read, now>>)>>)
         /\ UNCHANGED <<registry, readReceipts, now, client, page>>
    ELSE Revert("markMessageAsRead", err)

\* Variant: the read receipt records the time the message was sent.
markMessageAsRead_StampsSendTime(sender, friendKey, messageIndex) ==
    LET err == markMessageAsReadErr(sender, friendKey, messageIndex)
        chatCode == _getChatCode(sender, friendKey)
    IN
    IF err = OK
    THEN /\ allMessages' = [allMessages EXCEPT ![chatCode][messageIndex + 1].status = Read]
         /\ readReceipts' = [readReceipts EXCEPT ![chatCode][messageIndex] =
                                 MessageAt(chatCode, messageIndex).timestamp]
         /\ tx' = Receipt("markMessageAsRead", OK,
                          <<Event("MessageStatusUpdated",
                                  <<chatCode, messageIndex, sender, Read, now>>)>>)
         /\ UNCHANGED <<registry, now, client, page>>
    ELSE Revert("markMessageAsRead", err)

markMessageAsRead(sender, friendKey, messageIndex) ==
    LET err == markMessageAsReadErr(sender, friendKey, messageIndex)
        chatCode == _getChatCode(sender, friendKey)
    IN
    IF err = OK
    THEN /\ allMessages' = [allMessages EXCEPT ![chatCode][messageIndex + 1].status = Read]
         /\ readReceipts' = [readReceipts EXCEPT ![chatCode][messageIndex] = now]
         /\ tx' = Receipt("markMessageAsRead", OK,
                          <<Event("MessageStatusUpdated",
                                  <<chatCode, messageIndex, sender, Read, now>>)>>)
         /\ UNCHANGED <<registry, now, client, page>>
    ELSE Revert("markMessageAsRead", err)

\* Variant: no status guard, a read message can be marked delivered again.
markMessageAsDeliveredErr_NoStatusCheck(sender, friendKey, messageIndex) ==
    LET chatCode == _getChatCode(sender, friendKey) IN
    IF ~(messageIndex < Len(allMessages[chatCode])) THEN "Message index out of range"
    ELSE IF ~(MessageAt(chatCode, messageIndex).sender = friendKey)
         THEN "Can only mark messages from friend as delivered"
    ELSE OK

\* Variant: the status guard comes before the sender guard.
markMessageAsDeliveredErr_StatusFirst(sender, friendKey, messageIndex) ==
    LET chatCode == _getChatCode(sender, friendKey) IN
    IF ~(messageIndex < Len(allMessages[chatCode])) THEN "Message index out of range"
    ELSE IF ~(MessageAt(chatCode, messageIndex).status = Sent)
         THEN "Message status already updated"
    ELSE IF ~(MessageAt(chatCode, messageIndex).sender = friendKey)
         THEN "Can only mark messages from friend as delivered"
    ELSE OK

markMessageAsDeliveredErr(sender, friendKey, messageIndex) ==
    LET chatCode == _getChatCode(sender, friendKey) IN
    IF ~(messageIndex < Len(allMessages[chatCode])) THEN "Message index out of range"
    ELSE IF ~(MessageAt(chatCode, messageIndex).sender = friendKey)
         THEN "Can only mark messages from friend as delivered"
    ELSE IF ~(MessageAt(chatCode, messageIndex).status = Sent)
         THEN "Message status already updated"
    ELSE OK

\* Variant: stores the message anew with the caller as its sender.
markMessageAsDelivered_RewritesSender(sender, friendKey, messageIndex) ==
    LET err == markMessageAsDeliveredErr(sender, friendKey, messageIndex)
        chatCode == _getChatCode(sender, friendKey)
    IN
    IF err = OK
    THEN /\ allMessages' = [allMessages EXCEPT
                               ![chatCode][messageIndex + 1] =
                                   [@ EXCEPT !.sender = sender, !.status = Delivered]]
         /\ tx' = Receipt("markMessageAsDelivered", OK,
                          <<Event("MessageStatusUpdated",
                                  <<chatCode, messageIndex, sender, Delivered, now>>)>>)
         /\ UNCHANGED <<registry, readReceipts, now, client, page>>
    ELSE Revert("markMessageAsDelivered", err)

markMessageAsDelivered(sender, friendKey, messageIndex) ==
    LET err == markMessageAsDeliveredErr(sender, friendKey, messageIndex)
        chatCode == _getChatCode(sender, friendKey)
    IN
    IF err = OK
    THEN /\ allMessages' = [allMessages EXCEPT ![chatCode][messageIndex + 1].status = Delivered]
         /\ tx' = Receipt("markMessageAsDelivered", OK,
                          <<Event("MessageStatusUpdated",
                                  <<chatCode, messageIndex, sender, Delivered, now>>)>>)
         /\ UNCHANGED <<registry, readReceipts, now, client, page>>
    ELSE Revert("markMessageAsDelivered", err)

\* View functions, as seen by a caller.
readMessages(sender, friendKey) == allMessages[_getChatCode(sender, friendKey)]
getMessageCount(sender, friendKey) == Len(allMessages[_getChatCode(sender, friendKey)])
getReadReceipt(sender, friendKey, messageIndex) ==
    readReceipts[_getChatCode(sender, friendKey)][messageIndex]

\* A block is mined: block.timestamp never decreases.
Tick ==
    /\ now < MaxTime
    /\ now' = now + 1
    /\ tx' = Receipt("block", OK, << >>)
    /\ UNCHANGED <<registry, messages, client, page>>

\* ------------------------------------------- client: src/utils/encryption.js
\* JavaScript strings are sequences of UTF-16 code units, byte arrays sequences
\* of bytes.  An address string is "0x" and 40 hex digits; the addresses of the
\* model differ in their last HexDigits digits only, and only these digits are
\* kept (the common prefix "0x00..0" decides no comparison).
HexDigits == 2

\* The addresses the client is handed, as numbers (uint160).
ClientAddrs == {1, 11, 12}

\* EIP-55: the hex letters that ethers.getAddress writes in upper case, by digit
\* position, for each address (from the Keccak-256 of its lower-case digits):
\* 0x00..01, 0x00..0b, 0x00..0C.
ChecksumUpper == (1 :> {} @@ 11 :> {} @@ 12 :> {2})

LowerHexChar(d) == IF d < 10 THEN 48 + d ELSE 87 + d
UpperHexChar(d) == IF d < 10 THEN 48 + d ELSE 55 + d
HexCharValue(c) ==
    IF c \in 48..57 THEN c - 48 ELSE IF c \in 97..102 THEN c - 87 ELSE c - 55

\* The k-th of the HexDigits digits of address a, most significant first.
HexDigitOf(a, k) == (a \div (16 ^ (HexDigits - k))) % 16

\* String.prototype.toLowerCase on the characters an address holds.
toLowerCase(s) == [i \in 1..Len(s) |-> IF s[i] \in 65..90 THEN s[i] + 32 ELSE s[i]]

RECURSIVE ParseHex(_)
ParseHex(s) ==
    IF Len(s) = 0 THEN 0
    ELSE 16 * ParseHex(SubSeq(s, 1, Len(s) - 1)) + HexCharValue(s[Len(s)])

\* ethers.getAddress of an all-lower-case address: the checksummed spelling.
getAddress(s) ==
    LET a == ParseHex(s) IN
    [k \in 1..HexDigits |-> IF k \in ChecksumUpper[a]
                            THEN UpperHexChar(HexDigitOf(a, k))
                            ELSE LowerHexChar(HexDigitOf(a, k))]

\* The spellings in which an address reaches the client: lower case (from the
\* wallet provider) and checksummed (from contract calls).
LowerSpelling(a) == [k \in 1..HexDigits |-> LowerHexChar(HexDigitOf(a, k))]
ChecksumStrings == {getAddress(LowerSpelling(a)) : a \in ClientAddrs}
AddressStrings == {LowerSpelling(a) : a \in ClientAddrs} \cup ChecksumStrings

\* JavaScript's < on two strings: code unit by code unit.
StringLess(s, t) ==
    \/ \E i \in 1..Len(s) :
          /\ i <= Len(t)
          /\ \A j \in 1..(i - 1) : s[j] = t[j]
          /\ s[i] < t[i]
    \/ /\ Len(s) < Len(t)
       /\ \A j \in 1..Len(s) : s[j] = t[j]

\* ethers.solidityPackedKeccak256(['address', 'address'], addresses)
solidityPackedKeccak256(addresses) ==
    keccak256(ParseHex(toLowerCase(addresses[1])), ParseHex(toLowerCase(addresses[2])))

\* PBKDF2-HMAC-SHA-256 is taken to be injective: the key stands for its inputs.
PBKDF2Iterations == 10000
SaltBytes == 16
PBKDF2(password, salt, iterations) ==
    [password |-> password, salt |-> salt, iterations |-> iterations]

\* Variant: the seed is made from the caller's own address alone.
deriveSharedKey_OwnAddressOnly(myAddress, friendAddress) ==
    LET addr1 == getAddress(toLowerCase(myAddress))
        addresses == <<addr1, addr1>>
        seed == solidityPackedKeccak256(addresses)
        salt == <<"first", SaltBytes, seed>>
    IN PBKDF2(seed, salt, PBKDF2Iterations)

deriveSharedKey(myAddress, friendAddress) ==
    LET addr1 == getAddress(toLowerCase(myAddress))
        addr2 == getAddress(toLowerCase(friendAddress))
        addresses == IF StringLess(addr1, addr2) THEN <<addr1, addr2>> ELSE <<addr2, addr1>>
        seed == solidityPackedKeccak256(addresses)
        \* keyMaterial.slice(0, 16)
        salt == <<"first", SaltBytes, seed>>
    IN PBKDF2(seed, salt, PBKDF2Iterations)

\* TextEncoder.encode: UTF-8; a surrogate pair is one code point of four
\* bytes, a surrogate outside a pair is written as U+FFFD.
IsHighSurrogate(c) == c \in 55296..56319
IsLowSurrogate(c) == c \in 56320..57343
Utf8(cp) ==
    IF cp < 128 THEN <<cp>>
    ELSE IF cp < 2048 THEN <<192 + (cp \div 64), 128 + (cp % 64)>>
    ELSE IF cp < 65536
         THEN <<224 + (cp \div 4096), 128 + ((cp \div 64) % 64), 128 + (cp % 64)>>
    ELSE <<240 + (cp \div 262144), 128 + ((cp \div 4096) % 64),
           128 + ((cp \div 64) % 64), 128 + (cp % 64)>>

RECURSIVE TextEncoder_encode(_)
TextEncoder_encode(s) ==
    IF Len(s) = 0 THEN << >>
    ELSE IF Len(s) >= 2 /\ IsHighSurrogate(s[1]) /\ IsLowSurrogate(s[2])
         THEN Utf8(65536 + (s[1] - 55296) * 1024 + (s[2] - 56320))
                  \o TextEncoder_encode(SubSeq(s, 3, Len(s)))
    ELSE IF IsHighSurrogate(s[1]) \/ IsLowSurrogate(s[1])
         THEN Utf8(65533) \o TextEncoder_encode(Tail(s))
    ELSE Utf8(s[1]) \o TextEncoder_encode(Tail(s))

\* UTF-8 decoding of the bytes of one well-formed sequence into code units;
\* any other byte decodes to U+FFFD.
CodeUnits(cp) ==
    IF cp < 65536 THEN <<cp>>
    ELSE <<55296 + ((cp - 65536) \div 1024), 56320 + ((cp - 65536) % 1024)>>

IsContinuation(b, i) == i <= Len(b) /\ b[i] \in 128..191

RECURSIVE Utf8Decode(_)
Utf8Decode(b) ==
    IF Len(b) = 0 THEN << >>
    ELSE IF b[1] < 128 THEN <<b[1]>> \o Utf8Decode(Tail(b))
    ELSE IF b[1] \in 194..223 /\ IsContinuation(b, 2)
         THEN CodeUnits((b[1] - 192) * 64 + (b[2] - 128))
                  \o Utf8Decode(SubSeq(b, 3, Len(b)))
    ELSE IF b[1] \in 224..239 /\ IsContinuation(b, 2) /\ IsContinuation(b, 3)
         THEN CodeUnits((b[1] - 224) * 4096 + (b[2] - 128) * 64 + (b[3] - 128))
                  \o Utf8Decode(SubSeq(b, 4, Len(b)))
    ELSE IF b[1] \in 240..244 /\ IsContinuation(b, 2) /\ IsContinuation(b, 3)
              /\ IsContinuation(b, 4)
         THEN CodeUnits((b[1] - 240) * 262144 + (b[2] - 128) * 4096
                            + (b[3] - 128) * 64 + (b[4] - 128))
                  \o Utf8Decode(SubSeq(b, 5, Len(b)))
    ELSE <<65533>> \o Utf8Decode(Tail(b))

\* new TextDecoder().decode: the default decoder drops a leading byte order
\* mark (ignoreBOM is false).
ByteOrderMark == <<239, 187, 191>>
TextDecoder_decode(b) ==
    IF Len(b) >= 3 /\ SubSeq(b, 1, 3) = ByteOrderMark
    THEN Utf8Decode(SubSeq(b, 4, Len(b)))
    ELSE Utf8Decode(b)

\* AES-256-GCM is taken to be ideal: ciphertext and tag stand for the key, the
\* nonce and the plaintext bytes they were made from, and open under that key
\* and that nonce only.
IvBytes == 12
AESGCM_encrypt(iv, key, plaintextBytes) ==
    [key |-> key, iv |-> iv, plaintextBytes |-> plaintextBytes]

Thrown(error) == [thrown |-> error]
Returned(value) == [returned |-> value]
DidReturn(r) == "returned" \in DOMAIN r

\* subtle.decrypt opens ciphertext and tag made under the same key and nonce,
\* and rejects everything else: an altered ciphertext or tag, another key or
\* nonce, data shorter than a tag.
IsSealed(data) == Len(data) = 1 /\ "plaintextBytes" \in DOMAIN data[1]
AESGCM_decrypt(iv, key, data) ==
    IF IsSealed(data) /\ data[1].key = key /\ data[1].iv = iv
    THEN Returned(data[1].plaintextBytes)
    ELSE Thrown("OperationError")

\* btoa / atob: base64 text stands for the bytes it encodes; atob throws on
\* text that is not base64.
btoa(bytes) == [base64 |-> bytes]
IsBase64(text) == "base64" \in DOMAIN text
atob(text) == text.base64

\* iv: the 12 bytes getRandomValues produced.
encryptMessage(plaintext, key, iv) ==
    LET plaintextBytes == TextEncoder_encode(plaintext)
        encrypted == AESGCM_encrypt(iv, key, plaintextBytes)
        combined == iv \o <<encrypted>>
    IN btoa(combined)

decryptMessage(encryptedData, key) ==
    IF ~IsBase64(encryptedData)
    THEN Thrown("Failed to decrypt message. Message may be corrupted or key is incorrect.")
    ELSE
    LET combined == atob(encryptedData)
        iv == SubSeq(combined, 1, IvBytes)
        ciphertext == SubSeq(combined, IvBytes + 1, Len(combined))
        decrypted == AESGCM_decrypt(iv, key, ciphertext)
    IN IF DidReturn(decrypted)
       THEN Returned(TextDecoder_decode(decrypted.returned))
       ELSE Thrown("Failed to decrypt message. Message may be corrupted or key is incorrect.")

\* What the client holds after construction: nothing encrypted yet.
Idle == [op |-> "idle", caller |-> ZeroAddress, message |-> << >>,
         myAddress |-> << >>, peerAddress |-> << >>, key |-> << >>,
         blob |-> btoa(<< >>), sentBy |-> << >>, sentTo |-> << >>,
         plaintext |-> << >>, out |-> Thrown("")]

\* caller: the identity running the client; iv: the nonce drawn.
encryptMessageForRecipient(caller, message, myAddress, recipientAddress, iv) ==
    LET key == deriveSharedKey(myAddress, recipientAddress)
        blob == encryptMessage(message, key, iv)
    IN /\ client' = [op |-> "encryptMessageForRecipient", caller |-> caller,
                     message |-> message, myAddress |-> myAddress,
                     peerAddress |-> recipientAddress, key |-> key, blob |-> blob,
                     sentBy |-> myAddress, sentTo |-> recipientAddress,
                     plaintext |-> message, out |-> Returned(blob)]
       /\ UNCHANGED <<registry, messages, now, tx, page>>

\* client.blob stays the blob encrypted last; sentBy, sentTo and plaintext keep
\* what it was made from; message is the text handed to the call.
decryptMessageFromSender(caller, encryptedMessage, myAddress, senderAddress) ==
    LET key == deriveSharedKey(myAddress, senderAddress)
    IN /\ client' = [client EXCEPT !.op = "decryptMessageFromSender", !.caller = caller,
                                   !.message = encryptedMessage, !.myAddress = myAddress,
                                   !.peerAddress = senderAddress, !.key = key,
                                   !.out = decryptMessage(encryptedMessage, key)]
       /\ UNCHANGED <<registry, messages, now, tx, page>>

\* ----------------------------------------------------- UserRegistration views
getUser(_userAddress) ==
    LET u == userList[_userAddress] IN Returned(<<u.name, u.userAddress, u.friendList>>)

getUserByUsername(_username) ==
    LET userAddr == usernameToAddress[_username] IN
    IF ~(userAddr # ZeroAddress) THEN Thrown("User not found!")
    ELSE LET u == userList[userAddr] IN Returned(<<u.name, u.userAddress, u.friendList>>)

getPendingRequests(_user) == pendingRequests[_user]
getSentRequests(_user) == sentRequests[_user]

\* ------------------------------------------------------------ specification
\* Arguments of sendMessage (payload, kind, confidentiality flag) each wallet
\* submits: wallet 1 sends encrypted text, the others links to stored files;
\* every wallet also tries an empty payload and an unknown kind.
SendInputs(sender) ==
    {<<"", "text", TRUE>>, <<"hi", "audio", TRUE>>} \cup
    (IF sender = 1 THEN {<<"hi", "text", TRUE>>} ELSE {<<"ipfs://cid", "file", FALSE>>})

\* Message indices a caller may pass: every stored index and one beyond.
Indices == 0..MaxMsgs

\* Usernames each wallet asks for in the composed system: wallets 1 and 2
\* register, wallet 3 stays an outsider whose registrations are rejected.
ChatNames(sender) ==
    IF sender = 1 THEN {Alice}
    ELSE IF sender = 2 THEN {Bob}
    ELSE {NoName, TooLong}

\* The chat page before it is mounted: the useState defaults (ChatPage.jsx
\* 21-28).  NoFriend stands for selectedFriend = null; fetches are the calls of
\* fetchMessages that have not settled, each by the friend its closure holds.
NoFriend == [id |-> 0, name |-> NoName, address |-> ZeroAddress]
Unmounted == [mounted |-> FALSE, friends |-> << >>, selectedFriend |-> NoFriend,
              messages |-> << >>, loading |-> FALSE, fetches |-> << >>]

Init ==
    /\ userList = [a \in Addr |-> [name |-> NoName, userAddress |-> ZeroAddress,
                                   friendList |-> << >>]]
    /\ usernameTaken = [n \in Names |-> FALSE]
    /\ usernameToAddress = [n \in Names |-> ZeroAddress]
    /\ sentRequests = [a \in Addr |-> << >>]
    /\ pendingRequests = [a \in Addr |-> << >>]
    /\ allMessages = [c \in ChatCodes |-> << >>]
    /\ readReceipts = [c \in ChatCodes |-> [i \in Indices |-> 0]]
    /\ now = 1
    /\ tx = Receipt("constructor", OK, << >>)
    /\ client = Idle
    /\ page = Unmounted

\* The UserRegistration contract on its own: every wallet, every username.
NextUR ==
    \E sender \in Wallets :
        \/ \E name \in Names : createAccount(sender, name)
        \/ \E other \in Addr :
              \/ removeFriend(sender, other)
              \/ sendFriendRequest(sender, other)
              \/ acceptFriendRequest(sender, other)
              \/ cancelFriendRequest(sender, other)
              \/ rejectFriendRequest(sender, other)

SpecUR == Init /\ [][NextUR]_vars

\* Both contracts together: one transaction of either contract.
Transactions ==
    \E sender \in Wallets :
        \/ \E name \in ChatNames(sender) : createAccount(sender, name)
        \/ \E other \in Addr :
              \/ removeFriend(sender, other)
              \/ sendFriendRequest(sender, other)
              \/ acceptFriendRequest(sender, other)
              \/ cancelFriendRequest(sender, other)
              \/ rejectFriendRequest(sender, other)
        \/ \E friendKey \in Addr, in \in SendInputs(sender) :
              \* a channel of MaxMsgs messages accepts no further message
              /\ \/ sendMessageErr(sender, friendKey, in[1], in[2]) # OK
                 \/ Len(allMessages[_getChatCode(sender, friendKey)]) < MaxMsgs
              /\ sendMessage(sender, friendKey, in[1], in[2], in[3])
        \/ \E friendKey \in Addr, messageIndex \in Indices :
              \/ markMessageAsRead(sender, friendKey, messageIndex)
              \/ markMessageAsDelivered(sender, friendKey, messageIndex)

\* Transactions mined in blocks of one and the same timestamp.
SpecChat == Init /\ [][Transactions]_vars

\* Transactions and the passing of time.
Next == Transactions \/ Tick

Spec == Init /\ [][Next]_vars

\* ------------------------------------- MessageStorage of Message_contract.sol
\* The contract of src/contracts/Message_contract.sol, deployed with the address
\* of a UserRegistration.  Its allMessages mapping holds messages of three
\* fields; its _getChatCode and readMessages are those of the other
\* MessageStorage.
MessageContract_sendMessageErr(sender, friendKey, msg) ==
    IF ~(friendKey # ZeroAddress) THEN "Invalid recipient address!"
    ELSE IF ~(Len(msg) > 0) THEN "Message cannot be empty!"
    ELSE OK

MessageContract_sendMessage(sender, friendKey, msg) ==
    LET err == MessageContract_sendMessageErr(sender, friendKey, msg)
        chatCode == _getChatCode(sender, friendKey)
        newMsg == [sender |-> sender, timestamp |-> now, message |-> msg]
    IN
    IF err = OK
    THEN /\ allMessages' = [allMessages EXCEPT ![chatCode] = Append(@, newMsg)]
         /\ tx' = Receipt("sendMessage", OK,
                          <<Event("MessageSent", <<sender, friendKey, chatCode, msg>>)>>)
         /\ UNCHANGED <<registry, readReceipts, now, client, page>>
    ELSE Revert("sendMessage", err)

\* Messages stored in all channels together.
RECURSIVE StoredIn(_)
StoredIn(chatCodes) ==
    IF chatCodes = {} THEN 0
    ELSE LET chatCode == CHOOSE c \in chatCodes : TRUE
         IN Len(allMessages[chatCode]) + StoredIn(chatCodes \ {chatCode})

\* UserRegistration and the MessageStorage of Message_contract.sol: wallets 1
\* and 2 register and befriend each other, every wallet sends to every address.
NextMessageContract ==
    \E sender \in Wallets :
        \/ \E name \in ChatNames(sender) : createAccount(sender, name)
        \/ \E other \in Addr :
              \/ removeFriend(sender, other)
              \/ sendFriendRequest(sender, other)
              \/ acceptFriendRequest(sender, other)
              \/ cancelFriendRequest(sender, other)
              \/ rejectFriendRequest(sender, other)
        \/ \E friendKey \in Addr, msg \in {"", "hi"} :
              \* the ledger accepts no further message once MaxMsgs are stored
              /\ \/ MessageContract_sendMessageErr(sender, friendKey, msg) # OK
                 \/ StoredIn(ChatCodes) < MaxMsgs
              /\ MessageContract_sendMessage(sender, friendKey, msg)

SpecMessageContract == Init /\ [][NextMessageContract]_vars

\* ------------------------------------------ UserRegistration of part_000
\* The UserRegistration of src/unnamed/part_000: no requests, a friend is added
\* by one call.  It has no username index; its allUsers array, which only
\* getAllRegisteredUsers reads, is left out.
DirectAdd_createAccount(sender, name) ==
    LET err == createAccountErr(sender, name) IN
    IF err = OK
    THEN /\ userList' = [userList EXCEPT ![sender] =
                            [name |-> name, userAddress |-> sender, friendList |-> << >>]]
         /\ usernameTaken' = [usernameTaken EXCEPT ![name] = TRUE]
         /\ tx' = Receipt("createAccount", OK, <<Event("UserRegistered", <<sender, name>>)>>)
         /\ UNCHANGED <<usernameToAddress, sentRequests, pendingRequests, messages, now, client, page>>
    ELSE Revert("createAccount", err)

addFriendErr(sender, friendKey) ==
    IF ~(Len(userList[sender].name) # 0) THEN "Create an account first!"
    ELSE IF ~(Len(userList[friendKey].name) # 0) THEN "Friend not registered!"
    ELSE IF ~(sender # friendKey) THEN "Cannot add yourself as a friend!"
    ELSE IF _isAlreadyFriend(sender, friendKey) THEN "Already friends!"
    ELSE OK

addFriend(sender, friendKey) ==
    LET err == addFriendErr(sender, friendKey) IN
    IF err = OK
    THEN /\ userList' = _addFriend(_addFriend(userList, sender, friendKey), friendKey, sender)
         /\ tx' = Receipt("addFriend", OK, <<Event("FriendAdded", <<sender, friendKey>>)>>)
         /\ UNCHANGED <<usernameTaken, usernameToAddress, sentRequests, pendingRequests,
                        messages, now, client, page>>
    ELSE Revert("addFriend", err)

NextDirectAdd ==
    \E sender \in Wallets :
        \/ \E name \in Names : DirectAdd_createAccount(sender, name)
        \/ \E friendKey \in Addr : addFriend(sender, friendKey)

SpecDirectAdd == Init /\ [][NextDirectAdd]_vars

\* Three identities and the two contracts.  To keep the state space small the
\* third identity registers only while no message is stored, and messages are
\* stored only while the third identity has no record: the runs are those of
\* three registered identities that exchange no message, and those of two
\* registered identities that do.
FrameNames(sender) ==
    IF sender = 1 THEN Alice ELSE IF sender = 2 THEN Bob ELSE Carol

NoMessageStored == \A chatCode \in ChatCodes : allMessages[chatCode] = << >>

NextFrame ==
    \E sender \in Wallets :
        \/ /\ sender = 3 => NoMessageStored
           /\ createAccount(sender, FrameNames(sender))
        \/ \E other \in Addr :
              \/ removeFriend(sender, other)
              \/ sendFriendRequest(sender, other)
              \/ acceptFriendRequest(sender, other)
              \/ cancelFriendRequest(sender, other)
              \/ rejectFriendRequest(sender, other)
        \/ \E friendKey \in Addr, in \in SendInputs(sender) :
              /\ \/ sendMessageErr(sender, friendKey, in[1], in[2]) # OK
                 \/ /\ Len(allMessages[_getChatCode(sender, friendKey)]) < MaxMsgs
                    /\ ~userExists(3)
              /\ sendMessage(sender, friendKey, in[1], in[2], in[3])
        \/ \E friendKey \in Addr, messageIndex \in Indices :
              \/ markMessageAsRead(sender, friendKey, messageIndex)
              \/ markMessageAsDelivered(sender, friendKey, messageIndex)

SpecFrame == Init /\ [][NextFrame]_vars

\* ------------------------------------------------ src/pages/ChatPage.jsx
\* The chat page of the wallet that is connected.
Account == 1

\* Most calls of fetchMessages that have not settled.
MaxFetches == 2

DecryptionFailed == "[Encrypted message - decryption failed]"

\* fetchMessages, ChatPage.jsx 159-195: one displayed entry per message read.
\* The texts the contracts of this model store are not sealed boxes, so
\* decryptMessageFromSender throws on each: a friend's encrypted message shows
\* the failure text, an own one the stored text.  time is the minute of the day.
formatted(onchainMessages, account) ==
    [i \in 1..Len(onchainMessages) |->
        LET m == onchainMessages[i] IN
        [id |-> i,
         sender |-> IF m.sender = account THEN "me" ELSE "friend",
         text |-> IF m.isEncrypted /\ m.sender # account THEN DecryptionFailed
                  ELSE m.message,
         type |-> m.msgType,
         status |-> m.status,
         isEncrypted |-> m.isEncrypted,
         time |-> (m.timestamp \div 60) % 1440]]

\* fetchFriends (ChatPage.jsx 81-111) as the page mounts: the friend list of
\* the account, the first friend selected, and with the selection the effect of
\* lines 367-369 starts fetchMessages for it.
fetchFriends ==
    LET friendList == userList[Account].friendList
        formattedFriends ==
            [i \in 1..Len(friendList) |->
                [id |-> i,
                 name |-> IF Len(userList[friendList[i]].name) # 0
                          THEN userList[friendList[i]].name ELSE <<"Friend", i>>,
                 address |-> friendList[i]]]
    IN /\ ~page.mounted
       /\ page' = IF Len(formattedFriends) > 0
                  THEN [page EXCEPT !.mounted = TRUE, !.friends = formattedFriends,
                                    !.selectedFriend = formattedFriends[1],
                                    !.loading = TRUE,
                                    !.fetches = <<formattedFriends[1].address>>]
                  ELSE [page EXCEPT !.mounted = TRUE, !.friends = formattedFriends]
       /\ UNCHANGED <<registry, messages, now, tx, client>>

\* A click on the i-th friend of the sidebar (ChatPage.jsx 406): the selection
\* changes and the effect of lines 367-369 calls fetchMessages, which runs to
\* its first await with the friend selected now.
setSelectedFriend(i) ==
    /\ page.mounted
    /\ i \in 1..Len(page.friends)
    /\ page.friends[i] # page.selectedFriend
    /\ Len(page.fetches) < MaxFetches
    /\ page' = [page EXCEPT !.selectedFriend = page.friends[i],
                            !.loading = TRUE,
                            !.fetches = Append(@, page.friends[i].address)]
    /\ UNCHANGED <<registry, messages, now, tx, client>>

\* The k-th unsettled fetchMessages goes on after its awaits (ChatPage.jsx
\* 157-201): the log read for the friend of its closure is displayed.
fetchMessages(k) ==
    /\ k \in 1..Len(page.fetches)
    /\ page' = [page EXCEPT
                   !.messages = formatted(readMessages(Account, page.fetches[k]), Account),
                   !.loading = FALSE,
                   !.fetches = [j \in 1..(Len(@) - 1) |-> IF j < k THEN @[j] ELSE @[j + 1]]]
    /\ UNCHANGED <<registry, messages, now, tx, client>>

\* The page over the two contracts.  Accounts are made, requests sent and
\* accepted and messages sent before the page mounts; from then on the chain
\* stands still and the user clicks through the sidebar.
NextChatPage ==
    \/ /\ ~page.mounted
       /\ \E sender \in Wallets :
             \/ createAccount(sender, FrameNames(sender))
             \/ \E other \in Wallets :
                   \/ sendFriendRequest(sender, other)
                   \/ acceptFriendRequest(sender, other)
             \/ \E friendKey \in Wallets, in \in SendInputs(sender) :
                   /\ \/ sendMessageErr(sender, friendKey, in[1], in[2]) # OK
                      \/ StoredIn(ChatCodes) < MaxMsgs
                   /\ sendMessage(sender, friendKey, in[1], in[2], in[3])
    \/ fetchFriends
    \/ \E i \in 1..Len(page.friends) : setSelectedFriend(i)
    \/ \E k \in 1..MaxFetches : fetchMessages(k)

SpecChatPage == Init /\ [][NextChatPage]_vars

\* The client on its own.  Plaintexts typed or pasted into the chat box: "hi",
\* an emoji (a surrogate pair) and a text that begins with a byte order mark.
Plaintexts == {<<104, 105>>, <<55357, 56832>>, <<65279, 104>>}

\* Values of the 12 random bytes.
Nonces == {[i \in 1..IvBytes |-> 0], [i \in 1..IvBytes |-> 255]}

\* What the message field of a stored message may hold instead of the blob the
\* sender's client made: the blob with a byte of the nonce changed, with the
\* ciphertext or the tag changed, cut short inside the nonce, and text that is
\* not base64.
Damaged(blob) ==
    LET combined == atob(blob) IN
    { btoa([combined EXCEPT ![1] = (@ + 1) % 256]),
      btoa([combined EXCEPT ![IvBytes + 1] = [altered |-> @]]),
      btoa(SubSeq(combined, 1, IvBytes - 1)),
      [text |-> "not base64"] }

\* The sender encrypts under its own account, spelled as the wallet provider
\* or the signer spells it; the other address comes from a contract call.  The
\* exported decryption routine is called by anyone, on the blob published
\* last, with any two addresses; the recipient's client, which names its own
\* account and the stored sender, also meets the blob damaged.
NextClient ==
    \E caller \in ClientAddrs, myAddress \in AddressStrings, peer \in ChecksumStrings :
        \/ /\ ParseHex(toLowerCase(myAddress)) = caller
           /\ \E message \in Plaintexts, iv \in Nonces :
                 encryptMessageForRecipient(caller, message, myAddress, peer, iv)
        \/ /\ client.op # "idle"
           /\ decryptMessageFromSender(caller, client.blob, myAddress, peer)
        \/ /\ client.op # "idle"
           /\ ParseHex(toLowerCase(myAddress)) = caller
           /\ caller = ParseHex(toLowerCase(client.sentTo))
           /\ ParseHex(toLowerCase(peer)) = ParseHex(toLowerCase(client.sentBy))
           /\ \E blob \in Damaged(client.blob) :
                 decryptMessageFromSender(caller, blob, myAddress, peer)

SpecClient == Init /\ [][NextClient]_vars

\* =================================================================== claims
\* The friend set and the request indices read straight from storage.
Friends(a) == Range(userList[a].friendList)
Outgoing(a) == Range(sentRequests[a])
Incoming(a) == Range(pendingRequests[a])
MutualFriends(a, b) == b \in Friends(a) /\ a \in Friends(b)
Registered(a) == userList[a].name # NoName
Occurrences(arr, x) == Cardinality({i \in 1..Len(arr) : arr[i] = x})

NotFriendsReason == "Users must be friends to send messages!"
ReciprocalPendingReason == "User already sent you a request!"

\* C1: a message is appended to channel(sender, recipient) only by a
\* sendMessage of a sender who is a mutual friend of the recipient when the
\* send commits; a send between registered non-friends reverts with the
\* not-friends reason and no channel changes.
C1_SendOnlyBetweenFriends ==
    [][/\ allMessages' # allMessages => \A c \in ChatCodes :
            Len(allMessages'[c]) > Len(allMessages[c]) =>
                /\ tx'.op = "sendMessage"
                /\ \E s \in Wallets, r \in Wallets :
                      /\ c = _getChatCode(s, r)
                      /\ MutualFriends(s, r)
                      /\ allMessages'[c] = Append(allMessages[c], allMessages'[c][Len(allMessages'[c])])
                      /\ allMessages'[c][Len(allMessages'[c])].sender = s
       /\ tx'.op = "sendMessage" =>
            \A s \in {w \in Wallets : Registered(w)} :
              \A r \in {a \in Addr \ {s} : Registered(a) /\ ~MutualFriends(s, a)} :
                \A in \in {k \in SendInputs(s) : k[1] # ""} :
                   \/ /\ tx'.err = NotFriendsReason
                      /\ allMessages' = allMessages
                      /\ Len(allMessages'[_getChatCode(s, r)]) = Len(allMessages[_getChatCode(s, r)])
                   \/ ~sendMessage(s, r, in[1], in[2], in[3])
      ]_vars

\* C1 witness: two wallets that exchanged a message are no longer friends and
\* a send between them has just been refused.
C1_Witness ==
    /\ tx.op = "sendMessage"
    /\ tx.err = NotFriendsReason
    /\ \E a \in Wallets, b \in Wallets :
          /\ a # b /\ Registered(a) /\ Registered(b) /\ ~MutualFriends(a, b)
          /\ Len(allMessages[_getChatCode(a, b)]) > 0

\* C2: an edge between a and b appears only in an acceptFriendRequest called by
\* the recipient of a pending request, and a pending request from a to b is
\* recorded only by a's own sendFriendRequest(b).
C2_MutualConsent ==
    [][/\ userList' # userList =>
          \A a \in Addr, b \in Addr :
            (b \notin Friends(a) /\ b \in Range(userList'[a].friendList)) =>
                /\ tx'.op = "acceptFriendRequest"
                /\ tx'.err = OK
                /\ \/ (a \in Incoming(b) /\ b \in Outgoing(a) /\ b \in Wallets
                        /\ acceptFriendRequest(b, a))
                   \/ (b \in Incoming(a) /\ a \in Outgoing(b) /\ a \in Wallets
                        /\ acceptFriendRequest(a, b))
       /\ <<sentRequests, pendingRequests>>' # <<sentRequests, pendingRequests>> =>
          \A a \in Addr, b \in Addr :
            (\/ a \notin Incoming(b) /\ a \in Range(pendingRequests'[b])
             \/ b \notin Outgoing(a) /\ b \in Range(sentRequests'[a])) =>
                /\ a \in Wallets
                /\ tx'.err = OK
                /\ sendFriendRequest(a, b)
      ]_vars

\* C2 witness: a request was sent, then accepted by the other party.
C2_Witness ==
    /\ tx.op = "acceptFriendRequest"
    /\ tx.err = OK
    /\ \E a \in Wallets, b \in Wallets : a # b /\ MutualFriends(a, b)

\* C3: the friend relation is symmetric and irreflexive, and areFriends agrees
\* with membership in either friend list.
C3_FriendsSymmetric ==
    \A a \in Addr, b \in Addr :
        /\ (b \in Friends(a)) <=> (a \in Friends(b))
        /\ a \notin Friends(a)
        /\ areFriends(a, b) = areFriends(b, a)
        /\ areFriends(a, b) = (b \in Friends(a))

\* C3 witness: after a removal, one wallet still has a friend and another pair
\* is no longer connected.
C3_Witness ==
    /\ tx.op = "removeFriend"
    /\ tx.err = OK
    /\ \E a \in Wallets, b \in Wallets, c \in Wallets :
          /\ b \in Friends(a)
          /\ c # a /\ c # b /\ c \notin Friends(a) /\ Registered(c)

\* C4: right after a successful acceptFriendRequest(a) by b on a pending
\* request a -> b, areFriends holds both ways and no request between a and b
\* is left in any index.
C4_AcceptPostcondition ==
    [][tx'.op = "acceptFriendRequest" =>
        \A a \in Wallets, b \in Wallets :
            (/\ Registered(a) /\ Registered(b)
             /\ a \in Incoming(b)
             /\ acceptFriendRequest(b, a)
             /\ tx'.err = OK)
            => /\ areFriends(a, b)' /\ areFriends(b, a)'
               /\ a \notin Range(pendingRequests'[b])
               /\ b \notin Range(sentRequests'[a])
               /\ b \notin Range(pendingRequests'[a])
               /\ a \notin Range(sentRequests'[b])
      ]_vars

\* C4 witness: a request was accepted while the accepting wallet had, or has,
\* other requests in its indices.
C4_Witness ==
    /\ tx.op = "acceptFriendRequest"
    /\ tx.err = OK
    /\ \E a \in Wallets, b \in Wallets :
          /\ a # b /\ MutualFriends(a, b)
          /\ Incoming(b) # {}

\* C5: no request is recorded twice, and a pending request never coexists
\* with a friend edge between the same two identities.
C5_PendingInvariant ==
    \A a \in Addr, b \in Addr :
        /\ Occurrences(sentRequests[a], b) <= 1
        /\ Occurrences(pendingRequests[b], a) <= 1
        /\ (b \in Outgoing(a) \/ a \in Incoming(b)) =>
              (b \notin Friends(a) /\ a \notin Friends(b))

\* C5 witness: a wallet has a pending outgoing request and a friend.
C5_Witness ==
    \E a \in Wallets, b \in Wallets, c \in Wallets :
        /\ b \in Outgoing(a) /\ a \in Incoming(b)
        /\ c \in Friends(a)

\* C6: from no relation a sendFriendRequest succeeds; while a -> b is pending b's
\* sendFriendRequest(a) reverts with the reciprocal-pending reason and changes
\* nothing; requests a -> b and b -> a are never pending together.
NoRelation(a, b) ==
    /\ b \notin Friends(a) /\ a \notin Friends(b)
    /\ b \notin Outgoing(a) /\ a \notin Outgoing(b)
    /\ b \notin Incoming(a) /\ a \notin Incoming(b)

C6_ReciprocalRequest ==
    [][/\ tx'.op = "sendFriendRequest" =>
            \A a \in Wallets, b \in Wallets :
                /\ (/\ Registered(a) /\ Registered(b) /\ a # b
                    /\ NoRelation(a, b)
                    /\ sendFriendRequest(a, b))
                   => (tx'.err = OK /\ b \in Range(sentRequests'[a])
                                    /\ a \in Range(pendingRequests'[b]))
                /\ (/\ b \in Outgoing(a)
                    /\ sendFriendRequest(b, a))
                   => (tx'.err = ReciprocalPendingReason /\ UNCHANGED registry)
       /\ \A a \in Addr, b \in Addr :
            ~(b \in Range(sentRequests'[a]) /\ a \in Range(sentRequests'[b]))
       /\ \A a \in Addr, b \in Addr :
            ~(b \in Range(pendingRequests'[a]) /\ a \in Range(pendingRequests'[b]))
      ]_vars

\* C6 witness: the second of two crossing requests has just been refused.
C6_Witness ==
    /\ tx.op = "sendFriendRequest"
    /\ tx.err = ReciprocalPendingReason
    /\ \E a \in Wallets, b \in Wallets : b \in Outgoing(a) /\ a \in Incoming(b)

AlreadyReadReason == "Message already marked as read"
NotFromFriendReadReason == "Can only mark messages from friend as read"
NotFromFriendDeliveredReason == "Can only mark messages from friend as delivered"
StatusAlreadyAdvancedReason == "Message status already updated"

\* C7: every stored status is sent(0), delivered(1) or read(2); a stored
\* message keeps its index and its status never decreases: the only changes
\* are 0 -> 1, 0 -> 2 and 1 -> 2.
C7_StatusMonotonic ==
    [][allMessages' # allMessages => \A c \in ChatCodes :
          /\ \A i \in 1..Len(allMessages'[c]) :
                allMessages'[c][i].status \in {Sent, Delivered, Read}
          /\ \A i \in 1..Len(allMessages[c]) :
                /\ i <= Len(allMessages'[c])
                /\ allMessages'[c][i].status >= allMessages[c][i].status
                /\ allMessages'[c][i].status # allMessages[c][i].status =>
                      <<allMessages[c][i].status, allMessages'[c][i].status>> \in
                          {<<Sent, Delivered>>, <<Sent, Read>>, <<Delivered, Read>>}
          /\ \A i \in (Len(allMessages[c]) + 1)..Len(allMessages'[c]) :
                allMessages'[c][i].status = Sent
      ]_vars

\* C7 witness: a channel holds a read and a delivered message, and a
\* markMessageAsDelivered on an already advanced message has just been refused.
C7_Witness ==
    /\ tx.op = "markMessageAsDelivered"
    /\ tx.err = StatusAlreadyAdvancedReason
    /\ \E c \in ChatCodes : \E i \in 1..Len(allMessages[c]) :
          /\ allMessages[c][i].status = Read
          /\ \E j \in 1..Len(allMessages[c]) : allMessages[c][j].status = Delivered

\* C8 as stated: for a message sent by S into channel(S, R), a
\* markMessageAsRead or markMessageAsDelivered whose caller is not R reverts or
\* addresses another channel, and leaves the status of that message as it was.
C8_AsStated ==
    [][(tx'.op = "markMessageAsRead" \/ tx'.op = "markMessageAsDelivered") =>
        IF tx'.err # OK
        THEN allMessages' = allMessages
        ELSE \A S \in Wallets, R \in Wallets :
               \A i \in 1..Len(allMessages[_getChatCode(S, R)]) :
                 (S # R /\ allMessages[_getChatCode(S, R)][i].sender = S) =>
                    \A caller \in Wallets \ {R}, friendKey \in Addr, messageIndex \in Indices :
                        \/ /\ _getChatCode(caller, friendKey) # _getChatCode(S, R)
                           /\ allMessages'[_getChatCode(S, R)][i].status =
                                  allMessages[_getChatCode(S, R)][i].status
                        \/ /\ ~markMessageAsRead(caller, friendKey, messageIndex)
                           /\ ~markMessageAsDelivered(caller, friendKey, messageIndex)
      ]_vars

\* C8 (amended): for a message sent by S into channel(S, R) at index i, a
\* markMessageAsRead or markMessageAsDelivered whose caller is not R reverts,
\* addresses another channel, or addresses another index of the channel; in
\* every case the status of that message is left as it was.
C8_OnlyReceiverAdvances ==
    [][(tx'.op = "markMessageAsRead" \/ tx'.op = "markMessageAsDelivered") =>
        IF tx'.err # OK
        THEN allMessages' = allMessages
        ELSE \A S \in Wallets, R \in Wallets :
               \A i \in 1..Len(allMessages[_getChatCode(S, R)]) :
                 (S # R /\ allMessages[_getChatCode(S, R)][i].sender = S) =>
                    \A caller \in Wallets \ {R}, friendKey \in Addr, messageIndex \in Indices :
                        \/ /\ \/ _getChatCode(caller, friendKey) # _getChatCode(S, R)
                              \/ messageIndex # i - 1
                           /\ allMessages'[_getChatCode(S, R)][i].status =
                                  allMessages[_getChatCode(S, R)][i].status
                        \/ /\ ~markMessageAsRead(caller, friendKey, messageIndex)
                           /\ ~markMessageAsDelivered(caller, friendKey, messageIndex)
      ]_vars

\* C8 witness: the sender of a stored message tried to mark it read and was
\* refused.
C8_Witness ==
    /\ tx.op = "markMessageAsRead"
    /\ tx.err = NotFromFriendReadReason
    /\ \E c \in ChatCodes : \E i \in 1..Len(allMessages[c]) : allMessages[c][i].status = Sent

C10_ChannelCommutes ==
    \A a \in Addr, b \in Addr :
        /\ _getChatCode(a, b) = _getChatCode(b, a)
        /\ readMessages(a, b) = readMessages(b, a)
        /\ getMessageCount(a, b) = getMessageCount(b, a)
        /\ \A i \in 1..Len(readMessages(a, b)) :
              readMessages(a, b)[i].sender \in {a, b}

\* C10 witness: a channel holds a message from each of its two parties.
C10_Witness ==
    \E a \in Wallets, b \in Wallets :
        /\ a < b
        /\ Len(readMessages(b, a)) = 2
        /\ readMessages(b, a)[1].sender = b
        /\ readMessages(a, b)[2].sender = a

\* ------------------------------------------------------- claims on the client
\* The address a spelling denotes.
AddressOf(s) == ParseHex(toLowerCase(s))
\* The recipient of the last blob has just decrypted it, naming its sender.
RecipientDecrypted ==
    /\ client.op = "decryptMessageFromSender"
    /\ client.message = client.blob
    /\ AddressOf(client.sentBy) # AddressOf(client.sentTo)
    /\ client.caller = AddressOf(client.sentTo)
    /\ AddressOf(client.myAddress) = AddressOf(client.sentTo)
    /\ AddressOf(client.peerAddress) = AddressOf(client.sentBy)

\* C11 as stated: for every plaintext m, distinct A and B and every nonce,
\* decryptMessageFromSender(encryptMessageForRecipient(m, A, B), B, A) returns m.
C11_AsStated ==
    RecipientDecrypted => client.out = Returned(client.plaintext)

\* The part of C11 the code does satisfy: the two ends derive the same key from
\* either argument order and every nonce opens, so the recipient obtains the
\* UTF-8 text of m without a leading byte order mark.
C11_KeyAgreement ==
    RecipientDecrypted =>
        /\ client.key = deriveSharedKey(client.sentBy, client.sentTo)
        /\ client.out = Returned(TextDecoder_decode(TextEncoder_encode(client.plaintext)))

\* C12 as stated: an identity other than the two correspondents, knowing only
\* their addresses and the stored blob, does not obtain the plaintext.
C12_AsStated ==
    (/\ client.op = "decryptMessageFromSender"
     /\ AddressOf(client.sentBy) # AddressOf(client.sentTo)
     /\ client.out = Returned(client.plaintext))
    => client.caller \in {AddressOf(client.sentBy), AddressOf(client.sentTo)}

\* C13: every identity has at most one record and keeps its handle, every
\* handle belongs to at most one identity and is 1 to 32 bytes long, the handle
\* index agrees with the records, and no record is ever deleted.
HandleIndexAgrees ==
    /\ ~Registered(ZeroAddress)
    /\ \A a \in Wallets, b \in Wallets :
          (Registered(a) /\ Registered(b) /\ userList[a].name = userList[b].name) => a = b
    /\ \A a \in Wallets :
          Registered(a) => /\ Len(userList[a].name) \in 1..MaxNameLen
                           /\ userList[a].userAddress = a
                           /\ userExists(a)
    /\ \A h \in Names :
          /\ \A a \in Wallets :
                usernameToAddress[h] = a <=> (Registered(a) /\ userList[a].name = h)
          /\ usernameTaken[h] <=> \E a \in Wallets : Registered(a) /\ userList[a].name = h

C13_RegistryInvariant ==
    [][/\ HandleIndexAgrees'
       /\ \A a \in Addr : Registered(a) => userList'[a].name = userList[a].name
       /\ tx'.op = "createAccount" =>
             \A a \in {w \in Wallets : Registered(w)}, name \in Names :
                 \/ tx'.err = "User already exists!" /\ userList' = userList
                 \/ ~createAccount(a, name)
      ]_vars

\* C13 witness: two identities are registered, one under a 32-byte handle, and
\* a registration under a handle that is taken has just been refused.
C13_Witness ==
    /\ tx.op = "createAccount"
    /\ tx.err = "Username already taken!"
    /\ \E a \in Wallets, b \in Wallets :
          /\ a # b /\ Registered(b)
          /\ userList[a].name = Carol
          /\ usernameToAddress[Carol] = a

\* C14: a transaction that fails leaves the records, the handle bindings, the
\* friend lists, both request indices, the message logs, the statuses and the
\* read receipts as they were and emits no event.
C14_FailedCallChangesNothing ==
    [][tx'.err # OK =>
          /\ UNCHANGED <<userList, usernameTaken, usernameToAddress>>
          /\ UNCHANGED <<sentRequests, pendingRequests>>
          /\ UNCHANGED <<allMessages, readReceipts>>
          /\ tx'.logs = << >>
      ]_vars

\* C14 witness: with a friendship, a pending request and a stored message in
\* place, a crossing friend request has just been refused.
C14_Witness ==
    /\ tx.op = "sendFriendRequest"
    /\ tx.err = ReciprocalPendingReason
    /\ \E c \in ChatCodes : Len(allMessages[c]) > 0
    /\ \E a \in Wallets : Len(pendingRequests[a]) > 0

\* C15: a message is stored with status sent(0) and the send time; the
\* receiver's markMessageAsRead on a message with status 0 or 1 succeeds, sets
\* the status to read(2) and records the current block time as the read
\* receipt of that channel and index, and touches no other message or receipt.
C15_SentThenRead ==
    [][/\ (tx'.op = "sendMessage" /\ tx'.err = OK) =>
             \E c \in ChatCodes :
                 /\ Len(allMessages'[c]) = Len(allMessages[c]) + 1
                 /\ allMessages'[c][Len(allMessages'[c])].status = Sent
                 /\ allMessages'[c][Len(allMessages'[c])].timestamp = now
       /\ tx'.op = "markMessageAsRead" =>
             \A caller \in Wallets, friendKey \in Wallets :
               \A messageIndex \in
                     {i \in 0..(getMessageCount(caller, friendKey) - 1) :
                         /\ MessageAt(_getChatCode(caller, friendKey), i).sender = friendKey
                         /\ MessageAt(_getChatCode(caller, friendKey), i).status
                                \in {Sent, Delivered}} :
                  LET c == _getChatCode(caller, friendKey) IN
                  \/ /\ tx'.err = OK
                     /\ allMessages' = [allMessages EXCEPT ![c][messageIndex + 1].status = Read]
                     /\ readReceipts' = [readReceipts EXCEPT ![c][messageIndex] = now]
                     /\ now' = now
                  \/ ~markMessageAsRead(caller, friendKey, messageIndex)
      ]_vars

\* C15 witness: a message sent at one block time has just been marked read at
\* a later one, and its receipt holds the later time.
C15_Witness ==
    /\ tx.op = "markMessageAsRead"
    /\ tx.err = OK
    /\ \E c \in ChatCodes : \E i \in 1..Len(allMessages[c]) :
          /\ allMessages[c][i].status = Read
          /\ allMessages[c][i].timestamp < now
          /\ readReceipts[c][i - 1] = now

\* C16: removeFriend(A, B) succeeds exactly when A and B are registered,
\* distinct and friends; it fails with the not-friends reason when they are
\* registered and distinct but not friends, else with a registration or
\* self-target reason.  On success B leaves A's list and A leaves B's in the
\* one transaction, and all their other friends stay.
C16_RemoveFriend ==
    [][tx'.op = "removeFriend" =>
          \A A \in Wallets, B \in Addr :
             \/ ~removeFriend(A, B)
             \/ /\ tx'.err = OK <=>
                       (Registered(A) /\ Registered(B) /\ A # B /\ MutualFriends(A, B))
                /\ (Registered(A) /\ Registered(B) /\ A # B /\ ~MutualFriends(A, B))
                       => tx'.err = "Not friends yet!"
                /\ tx'.err \in {OK, "Not friends yet!", "Create an account first!",
                                 "Friend not registered!", "Cannot remove yourself!"}
                /\ tx'.err = OK =>
                       /\ Range(userList'[A].friendList) = Friends(A) \ {B}
                       /\ Range(userList'[B].friendList) = Friends(B) \ {A}
                       /\ Len(userList'[A].friendList) = Len(userList[A].friendList) - 1
                       /\ Len(userList'[B].friendList) = Len(userList[B].friendList) - 1
                       /\ \A c \in Addr \ {A, B} : userList'[c] = userList[c]
                       /\ tx'.logs = <<Event("FriendRemoved", <<A, B>>)>>
      ]_vars

\* C16 witness: an identity with two friends has just removed the one it
\* befriended first and still lists the other.
C16_Witness ==
    /\ tx.op = "removeFriend"
    /\ tx.err = OK
    /\ \E A \in Wallets, B \in Wallets, c \in Wallets :
          /\ tx.logs = <<Event("FriendRemoved", <<A, B>>)>>
          /\ c \notin {A, B}
          /\ userList[A].friendList = <<c>>
          /\ A \in Friends(c)
          /\ Friends(B) = {c}

\* C17 as stated: the seed the client hashes for a pair of addresses is the
\* contract's channel id of that pair.
C17_AsStated ==
    client.op # "idle" =>
        client.key.password =
            _getChatCode(AddressOf(client.myAddress), AddressOf(client.peerAddress))


\* C18 as stated: what an outside observer reads after a message is sent (the
\* event log of the transaction) is the same whoever the recipient is: the
\* run in which the sender addresses r and the run in which it addresses
\* another identity r2 with the same payload leave the same log.
C18_AsStated ==
    [][(tx'.op = "sendMessage" /\ tx'.err = OK) =>
          \A s \in Wallets, r \in Wallets : \A in \in SendInputs(s) :
             \/ ~sendMessage(s, r, in[1], in[2], in[3])
             \/ \A r2 \in Wallets \ {s} :
                   tx'.logs = <<MessageSent(s, r2, _getChatCode(s, r2), in[1], in[2],
                                            now, in[3])>>
      ]_vars

\* C19: getUserByUsername(h) returns identity a, with a's handle and a's
\* current friend list, exactly when a registered under h; for a handle nobody
\* registered it fails with the not-found reason.
C19_LookupByHandle ==
    \A h \in Names :
        /\ \A a \in Wallets :
              (Registered(a) /\ userList[a].name = h)
                  <=> getUserByUsername(h) = Returned(<<h, a, userList[a].friendList>>)
        /\ (\A a \in Wallets : ~(Registered(a) /\ userList[a].name = h))
              <=> getUserByUsername(h) = Thrown("User not found!")
        /\ DidReturn(getUserByUsername(h)) =>
              getUserByUsername(h) = getUser(getUserByUsername(h).returned[2])

\* C19 witness: the lookup of a handle registered earlier returns its
\* identity together with a friend made since, and the lookup of another
\* handle fails.
C19_Witness ==
    \E a \in Wallets, b \in Wallets :
        /\ getUserByUsername(Alice) = Returned(<<Alice, a, <<b>>>>)
        /\ getUserByUsername(Bob) = Thrown("User not found!")
        /\ tx.op = "acceptFriendRequest"
        /\ tx.err = OK

\* C20: the two request indices mirror each other after every transaction: B
\* is in A's sent index exactly when A is in B's pending index.
\* sendFriendRequest adds the pair to both indices and acceptFriendRequest,
\* rejectFriendRequest and cancelFriendRequest take it out of both in the one
\* transaction.
IndicesMirror ==
    \A A \in Addr, B \in Addr :
        /\ B \in Range(getSentRequests(A)) <=> A \in Range(getPendingRequests(B))
        /\ Occurrences(sentRequests[A], B) = Occurrences(pendingRequests[B], A)

C20_RequestIndicesMirror ==
    [][/\ IndicesMirror'
       /\ (tx'.err = OK /\ tx'.op = "sendFriendRequest") =>
             \A A \in Wallets, B \in Addr :
                \/ ~sendFriendRequest(A, B)
                \/ /\ B \notin Outgoing(A) /\ A \notin Incoming(B)
                   /\ B \in Range(sentRequests'[A]) /\ A \in Range(pendingRequests'[B])
       /\ (tx'.err = OK /\ tx'.op \in {"acceptFriendRequest", "rejectFriendRequest"}) =>
             \A B \in Wallets, A \in Addr :
                \/ ~acceptFriendRequest(B, A) /\ ~rejectFriendRequest(B, A)
                \/ /\ A \in Incoming(B) /\ B \in Outgoing(A)
                   /\ A \notin Range(pendingRequests'[B]) /\ B \notin Range(sentRequests'[A])
       /\ (tx'.err = OK /\ tx'.op = "cancelFriendRequest") =>
             \A A \in Wallets, B \in Addr :
                \/ ~cancelFriendRequest(A, B)
                \/ /\ A \in Incoming(B) /\ B \in Outgoing(A)
                   /\ A \notin Range(pendingRequests'[B]) /\ B \notin Range(sentRequests'[A])
      ]_vars

\* C20 witness: a sender with two requests out has just withdrawn the first,
\* and the other is still in both indices.
C20_Witness ==
    /\ tx.op = "cancelFriendRequest"
    /\ tx.err = OK
    /\ \E A \in Wallets, B \in Wallets :
          /\ A # B
          /\ sentRequests[A] = <<B>>
          /\ pendingRequests[B] = <<A>>
          /\ \E c \in Wallets \ {A, B} : Registered(c) /\ pendingRequests[c] = << >>

\* ---------------------------------------------------------------- C21 .. C30
NoRequestFromReason == "No request from this user!"
NoSentRequestReason == "No sent request to this user!"

\* C21: of the three calls that settle a pending request a -> b (a cancels, b
\* accepts, b rejects), whichever commits first succeeds and leaves the ledger
\* in a state where each of the three is refused for want of a request; as long
\* as no request a -> b is pending each of them is refused with that reason and
\* changes nothing; a and b are friends afterwards exactly when the call that
\* committed was the accept.
C21_FirstSettlementWins ==
    [][\A a \in Wallets : \A b \in Wallets \ {a} :
          /\ \/ ~(b \in Outgoing(a) /\ tx'.err = OK)
             \/ ~( \/ cancelFriendRequest(a, b)
                   \/ acceptFriendRequest(b, a)
                   \/ rejectFriendRequest(b, a) )
             \/ /\ cancelFriendRequestErr(a, b)' = NoSentRequestReason
                /\ acceptFriendRequestErr(b, a)' = NoRequestFromReason
                /\ rejectFriendRequestErr(b, a)' = NoRequestFromReason
                /\ MutualFriends(a, b)' <=> tx'.op = "acceptFriendRequest"
          /\ \/ b \in Outgoing(a) \/ a \in Incoming(b)
             \/ /\ cancelFriendRequest(a, b) =>
                      tx'.err = NoSentRequestReason /\ UNCHANGED registry
                /\ (acceptFriendRequest(b, a) \/ rejectFriendRequest(b, a)) =>
                      tx'.err = NoRequestFromReason /\ UNCHANGED registry
      ]_vars

\* The requester's cancel has just been refused for want of a request while the
\* two are friends: the accept committed before it.
C21_Witness ==
    /\ tx.op = "cancelFriendRequest"
    /\ tx.err = NoSentRequestReason
    /\ \E a \in Wallets, b \in Wallets : a # b /\ MutualFriends(a, b)

\* C22: once b has rejected the request a -> b, or a has cancelled it, or one
\* of two friends has removed the other, the pair is back where it started:
\* no friend edge either way, no entry for the pair in either request index,
\* and a new request would be admitted in either direction.
C22_BackToNoRelation ==
    [][\A a \in Wallets : \A b \in Wallets \ {a} :
          \/ tx'.err # OK
          \/ ~( \/ rejectFriendRequest(b, a)
                \/ cancelFriendRequest(a, b)
                \/ removeFriend(a, b) )
          \/ /\ NoRelation(a, b)'
             /\ sendFriendRequestErr(a, b)' = OK
             /\ sendFriendRequestErr(b, a)' = OK
      ]_vars

\* b has just rejected a's request and nothing relates the two any more.
C22_Witness ==
    \E a \in Wallets, b \in Wallets :
        /\ a # b
        /\ tx = Receipt("rejectFriendRequest", OK,
                        <<Event("FriendRequestRejected", <<a, b>>)>>)
        /\ NoRelation(a, b)

\* C23: a channel only grows, and a stored message keeps its index, sender,
\* timestamp, payload, kind and confidentiality flag under every later
\* operation; its status is the only field that may change.
C23_AppendOnly ==
    [][\A chatCode \in ChatCodes :
          \/ allMessages'[chatCode] = allMessages[chatCode]
          \/ /\ Len(allMessages'[chatCode]) >= Len(allMessages[chatCode])
             /\ \A i \in 0..(Len(allMessages[chatCode]) - 1) :
                   /\ MessageAt(chatCode, i)'.sender = MessageAt(chatCode, i).sender
                   /\ MessageAt(chatCode, i)'.timestamp = MessageAt(chatCode, i).timestamp
                   /\ MessageAt(chatCode, i)'.message = MessageAt(chatCode, i).message
                   /\ MessageAt(chatCode, i)'.msgType = MessageAt(chatCode, i).msgType
                   /\ MessageAt(chatCode, i)'.isEncrypted = MessageAt(chatCode, i).isEncrypted
      ]_vars

\* A channel of two messages whose statuses have both advanced since they were
\* stored: the first was read, the second delivered.
C23_Witness ==
    \E chatCode \in ChatCodes :
        /\ Len(allMessages[chatCode]) = 2
        /\ MessageAt(chatCode, 0).status = Read
        /\ MessageAt(chatCode, 1).status = Delivered

\* C24: whichever of two friends sends, and in whatever order their sends
\* commit, a successful send makes the channel exactly one longer, the new
\* message sits at the index that was the channel's length, with the caller as
\* sender, status sent(0) and the ledger clock as timestamp, every message
\* stored before it stays where it was, and no other channel changes; a step
\* that is not a successful send changes no channel's length.  So k successful
\* sends leave the channel k longer, in commit order.
C24_SendsAppendInCommitOrder ==
    [][IF tx'.op = "sendMessage" /\ tx'.err = OK
       THEN \A a \in Wallets : \A b \in {w \in Wallets : MutualFriends(a, w)} :
              \A in \in SendInputs(a) :
                 \/ ~sendMessage(a, b, in[1], in[2], in[3])
                 \/ LET chatCode == _getChatCode(a, b)
                        length == Len(allMessages[chatCode])
                    IN /\ Len(allMessages'[chatCode]) = length + 1
                       /\ allMessages'[chatCode][length + 1].sender = a
                       /\ allMessages'[chatCode][length + 1].status = Sent
                       /\ allMessages'[chatCode][length + 1].timestamp = now
                       /\ allMessages'[chatCode][length + 1].message = in[1]
                       /\ \A i \in 0..(length - 1) :
                             MessageAt(chatCode, i)' = MessageAt(chatCode, i)
                       /\ \A other \in ChatCodes \ {chatCode} :
                             allMessages'[other] = allMessages[other]
       ELSE \A chatCode \in ChatCodes :
               Len(allMessages'[chatCode]) = Len(allMessages[chatCode])
      ]_vars

\* Both friends have sent into their channel, the second send at a later clock
\* value than the first, and each message sits where its send committed.
C24_Witness ==
    \E a \in Wallets, b \in Wallets :
        /\ a < b
        /\ tx.op = "sendMessage" /\ tx.err = OK
        /\ getMessageCount(a, b) = 2
        /\ readMessages(a, b)[1].sender = a
        /\ readMessages(a, b)[2].sender = b
        /\ readMessages(a, b)[1].timestamp < readMessages(a, b)[2].timestamp

\* C25: sendMessage is refused as an invalid recipient when the recipient is
\* the zero address or the sender, as an empty payload when the payload is
\* empty, as an unregistered sender or recipient when that party has no
\* record, and as an invalid kind when two friends send something that is
\* neither text nor file (each reason given when no guard before it fails);
\* a refused send appends to no channel, emits no event and changes nothing.
C25_SendRefusals ==
    /\ [](\A a \in Wallets, b \in Addr : \A in \in SendInputs(a) :
             LET err == sendMessageErr(a, b, in[1], in[2]) IN
                /\ b = ZeroAddress => err = "Invalid recipient address!"
                /\ b = a => err = "Cannot send message to yourself!"
                /\ (b \notin {ZeroAddress, a} /\ in[1] = "") =>
                      err = "Message cannot be empty!"
                /\ (b \notin {ZeroAddress, a} /\ in[1] # "" /\ ~Registered(a)) =>
                      err = "Sender not registered!"
                /\ (b \notin {ZeroAddress, a} /\ in[1] # "" /\ Registered(a)
                        /\ ~Registered(b)) =>
                      err = "Recipient not registered!"
                /\ (in[1] # "" /\ MutualFriends(a, b) /\ in[2] \notin {"text", "file"}) =>
                      err = "Invalid message type!")
    /\ [][(tx'.op = "sendMessage" /\ tx'.err # OK) =>
             /\ allMessages' = allMessages
             /\ tx'.logs = << >>
             /\ UNCHANGED <<registry, readReceipts>>
         ]_vars

\* A friend's message of an unknown kind has just been refused.
C25_Witness ==
    /\ tx = Receipt("sendMessage", "Invalid message type!", << >>)
    /\ \E a \in Wallets, b \in Wallets : a # b /\ MutualFriends(a, b)

\* The (caller, counterparty, index) triples that address a stored message.
StoredIndices ==
    {call \in Wallets \X Addr \X Indices :
        call[3] < Len(allMessages[_getChatCode(call[1], call[2])])}

\* What a markMessageAsDelivered step does to the channel: a refused call
\* leaves every status as it was, a successful one sets the addressed status to
\* delivered(1) and emits one status event.
MarkDeliveredEffect ==
    \/ tx'.op # "markMessageAsDelivered"
    \/ IF tx'.err # OK
       THEN allMessages' = allMessages /\ tx'.logs = << >>
       ELSE \A call \in {c \in StoredIndices :
                            markMessageAsDeliveredErr(c[1], c[2], c[3]) = OK} :
               \/ ~markMessageAsDelivered(call[1], call[2], call[3])
               \/ /\ allMessages'[_getChatCode(call[1], call[2])][call[3] + 1].status
                        = Delivered
                  /\ Len(tx'.logs) = 1
                  /\ tx'.logs[1].event = "MessageStatusUpdated"

\* C26 as stated: for a stored index, markMessageAsDelivered succeeds exactly
\* when the message's sender is the counterparty and its status is sent(0), and
\* in every other case, the caller's own message included, it is refused with
\* the status-already-advanced reason and the status stays; on success the
\* status becomes delivered(1) and one status event is emitted.
C26_AsStated ==
    /\ [](\A call \in StoredIndices :
             LET message == MessageAt(_getChatCode(call[1], call[2]), call[3])
                 err == markMessageAsDeliveredErr(call[1], call[2], call[3])
             IN /\ err = OK <=> (message.sender = call[2] /\ message.status = Sent)
                /\ err # OK => err = StatusAlreadyAdvancedReason)
    /\ [][MarkDeliveredEffect]_vars

\* C26 (amended): for a stored index, markMessageAsDelivered succeeds exactly
\* when the message's sender is the counterparty and its status is sent(0); it
\* is refused with the not-from-friend reason when the message was sent by the
\* caller, and with the status-already-advanced reason when the message is the
\* counterparty's and its status is already 1 or 2; a refused call leaves the
\* status as it was; on success the status becomes delivered(1) and one status
\* event is emitted.
C26_MarkDelivered ==
    /\ [](\A call \in StoredIndices :
             LET message == MessageAt(_getChatCode(call[1], call[2]), call[3])
                 err == markMessageAsDeliveredErr(call[1], call[2], call[3])
             IN /\ err = OK <=> (message.sender = call[2] /\ message.status = Sent)
                /\ message.sender # call[2] =>
                      /\ message.sender = call[1]
                      /\ err = NotFromFriendDeliveredReason
                /\ (message.sender = call[2] /\ message.status \in {Delivered, Read}) =>
                      err = StatusAlreadyAdvancedReason)
    /\ [][MarkDeliveredEffect]_vars

\* The sender of a delivered message has just tried to mark it delivered and was
\* told that it is not a message from the friend.
C26_Witness ==
    /\ tx = Receipt("markMessageAsDelivered", NotFromFriendDeliveredReason, << >>)
    /\ \E call \in StoredIndices :
          LET message == MessageAt(_getChatCode(call[1], call[2]), call[3]) IN
             message.sender = call[1] /\ message.status = Delivered

\* The state-changing calls of the two contracts.
StateChangingCalls ==
    {"createAccount", "sendFriendRequest", "acceptFriendRequest", "rejectFriendRequest",
     "cancelFriendRequest", "removeFriend", "sendMessage", "markMessageAsDelivered",
     "markMessageAsRead"}

\* C27 as stated: every successful state-changing call appends exactly one
\* event to the log.
C27_AsStated ==
    [][(tx'.err = OK /\ tx'.op \in StateChangingCalls) => Len(tx'.logs) = 1]_vars

\* C27 (amended): a successful createAccount, sendFriendRequest,
\* rejectFriendRequest, removeFriend, sendMessage, markMessageAsDelivered or
\* markMessageAsRead appends exactly one event; a successful acceptFriendRequest
\* appends two, FriendRequestAccepted and then FriendAdded; a successful
\* cancelFriendRequest appends none.  So an observer that follows only the
\* events sees every change of the stored state except a cancellation.
C27_EventsPerCall ==
    [][/\ (tx'.err = OK /\ tx'.op \in StateChangingCalls) =>
             /\ <<registry, messages>>' # <<registry, messages>>
             /\ CASE tx'.op = "acceptFriendRequest" ->
                        /\ Len(tx'.logs) = 2
                        /\ tx'.logs[1].event = "FriendRequestAccepted"
                        /\ tx'.logs[2].event = "FriendAdded"
                  [] tx'.op = "cancelFriendRequest" -> tx'.logs = << >>
                  [] OTHER -> Len(tx'.logs) = 1
       /\ <<registry, messages>>' # <<registry, messages>> =>
             \/ tx'.logs # << >>
             \/ tx'.op = "cancelFriendRequest" /\ tx'.err = OK
      ]_vars

\* A request has just been accepted: the two are friends and the receipt holds
\* the acceptance event followed by the friend-added event.
C27_Witness ==
    \E a \in Wallets, b \in Wallets :
        /\ MutualFriends(a, b)
        /\ tx = Receipt("acceptFriendRequest", OK,
                        <<Event("FriendRequestAccepted", <<a, b>>),
                          Event("FriendAdded", <<b, a>>)>>)

\* The unordered pair of identities two spellings denote.
IdentityPair(s, t) == {AddressOf(s), AddressOf(t)}

\* C28: a blob that encryptMessageForRecipient made for one pair of identities
\* is decrypted under any other pair with a key different from the one it was
\* made with, and the call throws: it returns no plaintext.
C28_KeySeparation ==
    (/\ client.op = "decryptMessageFromSender"
     /\ client.message = client.blob
     /\ IdentityPair(client.myAddress, client.peerAddress)
            # IdentityPair(client.sentBy, client.sentTo))
    => /\ client.key # deriveSharedKey(client.sentBy, client.sentTo)
       /\ ~DidReturn(client.out)

\* A blob made for two distinct identities has been handed to decryption under
\* a pair that shares one identity with them, and the call threw.
C28_Witness ==
    /\ client.op = "decryptMessageFromSender"
    /\ client.message = client.blob
    /\ AddressOf(client.sentBy) # AddressOf(client.sentTo)
    /\ AddressOf(client.myAddress) = AddressOf(client.sentTo)
    /\ AddressOf(client.peerAddress) \notin {AddressOf(client.sentBy), AddressOf(client.sentTo)}
    /\ ~DidReturn(client.out)

\* C29 as stated: decryptMessageFromSender either throws or returns exactly the
\* plaintext that was encrypted, and returns it only for the blob as it was
\* made, under the identity pair it was made for.
C29_AsStated ==
    client.op = "decryptMessageFromSender" =>
        \/ ~DidReturn(client.out)
        \/ /\ client.out = Returned(client.plaintext)
           /\ client.message = client.blob
           /\ IdentityPair(client.myAddress, client.peerAddress)
                  = IdentityPair(client.sentBy, client.sentTo)

\* The part of C29 the code does satisfy: a blob with an altered nonce,
\* ciphertext or tag, a truncated blob, text that is not base64 and a blob made
\* under another pair all make the call throw; what the call returns is the
\* decoded UTF-8 text of the plaintext, whole.
C29_DamagedBlobsThrow ==
    client.op = "decryptMessageFromSender" =>
        \/ ~DidReturn(client.out)
        \/ /\ client.out = Returned(TextDecoder_decode(TextEncoder_encode(client.plaintext)))
           /\ client.message = client.blob
           /\ IdentityPair(client.myAddress, client.peerAddress)
                  = IdentityPair(client.sentBy, client.sentTo)

\* The recipient's client met a damaged blob and threw.
C29_DamagedBlobMet ==
    /\ client.op = "decryptMessageFromSender"
    /\ client.message \in Damaged(client.blob)
    /\ ~DidReturn(client.out)

\* The handle is bound to an identity other than a.
BoundToAnother(a, name) ==
    \E b \in Wallets \ {a} : Registered(b) /\ userList[b].name = name

\* C30: createAccount is refused as already registered when the caller has a
\* record, whatever the handle; otherwise as an invalid handle when the handle
\* is empty or longer than 32 bytes; otherwise as a taken handle when the handle
\* is bound to another identity; it succeeds only when none of these applies,
\* and then creates the caller's record with an empty friend list, binds the
\* handle to the caller and emits one registration event; a refused call
\* changes nothing.
C30_RegisterRefusals ==
    /\ [](\A a \in Wallets, name \in Names :
             LET err == createAccountErr(a, name) IN
                /\ Registered(a) => err = "User already exists!"
                /\ (~Registered(a) /\ Len(name) = 0) => err = "Username cannot be empty!"
                /\ (~Registered(a) /\ Len(name) > MaxNameLen) => err = "Username too long!"
                /\ (~Registered(a) /\ Len(name) \in 1..MaxNameLen /\ BoundToAnother(a, name))
                      => err = "Username already taken!"
                /\ err = OK <=> /\ ~Registered(a)
                                /\ Len(name) \in 1..MaxNameLen
                                /\ ~BoundToAnother(a, name))
    /\ [][\/ tx'.op # "createAccount"
          \/ IF tx'.err # OK
             THEN UNCHANGED registry /\ tx'.logs = << >>
             ELSE \A a \in {w \in Wallets : ~Registered(w)} :
                    \A name \in {n \in Names : createAccountErr(a, n) = OK} :
                       \/ ~createAccount(a, name)
                       \/ /\ userList'[a] = [name |-> name, userAddress |-> a,
                                             friendList |-> << >>]
                          /\ \A b \in Addr \ {a} : userList'[b] = userList[b]
                          /\ usernameToAddress'[name] = a
                          /\ usernameTaken'[name]
                          /\ tx'.logs = <<Event("UserRegistered", <<a, name>>)>>
         ]_vars

\* With one identity registered and a second handle free, a registration by an
\* identity that already has a record has just been refused.
C30_Witness ==
    /\ tx = Receipt("createAccount", "User already exists!", << >>)
    /\ \E a \in Wallets : Registered(a)
    /\ \E name \in Names : Len(name) \in 1..MaxNameLen /\ ~usernameTaken[name]

\* ---------------------------------------------------------------- C31 .. C40
AlreadyFriendsReason == "Already friends!"
DuplicateRequestReason == "Request already sent!"

\* C31: sendFriendRequest(a, b) is admitted exactly when a and b are both
\* registered and distinct, are not friends and have no request pending
\* between them in either direction; between two friends it is refused as
\* already friends, and while a -> b is pending as a duplicate request; a
\* successful call adds b, once, to a's outgoing index and a, once, to b's
\* incoming index and changes no other index and no record.
C31_SendRequest ==
    /\ [](\A a \in Wallets, b \in Addr :
             LET err == sendFriendRequestErr(a, b) IN
                /\ err = OK <=> /\ Registered(a) /\ Registered(b) /\ a # b
                                /\ NoRelation(a, b)
                /\ (a # b /\ MutualFriends(a, b)) => err = AlreadyFriendsReason
                /\ (a # b /\ b \in Outgoing(a)) => err = DuplicateRequestReason)
    /\ [][\/ tx'.op # "sendFriendRequest"
          \/ IF tx'.err # OK
             THEN UNCHANGED registry
             ELSE \A a \in {w \in Wallets : Registered(w)} :
                    \A b \in {w \in Addr : sendFriendRequestErr(a, w) = OK} :
                       \/ ~sendFriendRequest(a, b)
                       \/ /\ Range(sentRequests'[a]) = Outgoing(a) \cup {b}
                          /\ Len(sentRequests'[a]) = Len(sentRequests[a]) + 1
                          /\ Range(pendingRequests'[b]) = Incoming(b) \cup {a}
                          /\ Len(pendingRequests'[b]) = Len(pendingRequests[b]) + 1
                          /\ \A c \in Addr \ {a} : sentRequests'[c] = sentRequests[c]
                          /\ \A c \in Addr \ {b} : pendingRequests'[c] = pendingRequests[c]
                          /\ UNCHANGED <<userList, usernameTaken, usernameToAddress>>
         ]_vars

\* While a request is pending, a second request has just been refused as a
\* duplicate.
C31_Witness ==
    /\ tx = Receipt("sendFriendRequest", DuplicateRequestReason, << >>)
    /\ \E a \in Wallets, b \in Wallets : b \in Outgoing(a) /\ a \in Incoming(b)

\* C34: a pending request is never stuck: whenever a -> b is pending, in
\* either index, the guards of acceptFriendRequest(a) by b, of
\* rejectFriendRequest(a) by b and of cancelFriendRequest(b) by a all pass; the
\* already-friends guard of acceptFriendRequest is never the one that fails.
C34_PendingNeverStuck ==
    /\ \A a \in Addr, b \in Addr :
          /\ (b \in Outgoing(a) \/ a \in Incoming(b)) =>
                /\ acceptFriendRequestErr(b, a) = OK
                /\ rejectFriendRequestErr(b, a) = OK
                /\ cancelFriendRequestErr(a, b) = OK
          /\ acceptFriendRequestErr(b, a) # AlreadyFriendsReason
    /\ tx.op = "acceptFriendRequest" => tx.err # AlreadyFriendsReason

\* A request a -> b is pending while b already has a friend and an accept has
\* just succeeded.
C34_Witness ==
    /\ tx.op = "acceptFriendRequest" /\ tx.err = OK
    /\ \E a \in Wallets, b \in Wallets :
          /\ b \in Outgoing(a) /\ a \in Incoming(b)
          /\ Friends(b) # {}

\* C37: every identity that appears in a friend list, an outgoing index or an
\* incoming index is registered, and so is every owner of a list that is not
\* empty.
C37_OnlyRegisteredIdentities ==
    \A a \in Addr :
        LET listed == Friends(a) \cup Outgoing(a) \cup Incoming(a) IN
           /\ listed # {} => Registered(a)
           /\ \A b \in listed : Registered(b)

\* A request is pending between two registered identities while a third
\* identity is not registered, and an accept has just been refused for want of
\* a request.
C37_Witness ==
    /\ tx.op = "acceptFriendRequest" /\ tx.err = NoRequestFromReason
    /\ \E a \in Wallets, b \in Wallets, c \in Wallets :
          /\ b \in Outgoing(a) /\ a \in Incoming(b)
          /\ ~Registered(c)

\* C40: no friend list, outgoing index or incoming index holds an identity
\* twice, so removing the first occurrence of an identity with _removeFriend or
\* _removeRequest leaves a list that does not hold it.
C40_NoDuplicates ==
    \A a \in Addr, b \in Addr :
        /\ Occurrences(userList[a].friendList, b) <= 1
        /\ Occurrences(sentRequests[a], b) <= 1
        /\ Occurrences(pendingRequests[a], b) <= 1
        /\ b \notin Range(_removeFriend(userList[a].friendList, b))
        /\ b \notin Range(_removeRequest(sentRequests[a], b))
        /\ b \notin Range(_removeRequest(pendingRequests[a], b))

\* An identity has two friends and a third party's removeFriend has just
\* succeeded.
C40_Witness ==
    /\ tx.op = "removeFriend" /\ tx.err = OK
    /\ \E a \in Wallets : Len(userList[a].friendList) = 2

\* C35: what readMessages returns to X for counterparty Y holds only messages
\* sent by X or by Y, and the channel of an identity with itself is empty.
C35_ChannelSenders ==
    \A X \in Addr, Y \in Addr :
        /\ \A i \in 1..Len(readMessages(X, Y)) : readMessages(X, Y)[i].sender \in {X, Y}
        /\ readMessages(X, X) = << >>

\* The channel of two friends holds a message of each, and a send to oneself
\* has just been refused.
C35_Witness ==
    /\ tx = Receipt("sendMessage", "Cannot send message to yourself!", << >>)
    /\ \E X \in Wallets, Y \in Wallets :
          /\ X # Y
          /\ getMessageCount(X, Y) = 2
          /\ {readMessages(X, Y)[i].sender : i \in 1..2} = {X, Y}

\* C36: the read receipt of a channel and index is non-zero exactly when a
\* message is stored there with status read(2), and is then at least the
\* message's send timestamp; a receipt becomes non-zero only in a successful
\* markMessageAsRead, which sets it to the clock value of that call, and once
\* set it never changes.
C36_ReadReceipts ==
    /\ [](\A chatCode \in ChatCodes, i \in Indices :
             /\ readReceipts[chatCode][i] # 0 <=>
                   /\ i < Len(allMessages[chatCode])
                   /\ MessageAt(chatCode, i).status = Read
             /\ readReceipts[chatCode][i] # 0 =>
                   readReceipts[chatCode][i] >= MessageAt(chatCode, i).timestamp)
    /\ [][\/ readReceipts' = readReceipts
          \/ \A chatCode \in ChatCodes, i \in Indices :
                \/ readReceipts'[chatCode][i] = readReceipts[chatCode][i]
                \/ /\ readReceipts[chatCode][i] = 0
                   /\ tx'.op = "markMessageAsRead" /\ tx'.err = OK
                   /\ readReceipts'[chatCode][i] = now
         ]_vars

\* A message was read at an earlier clock value, its receipt still holds that
\* value, and a second markMessageAsRead on it has just been refused.
C36_Witness ==
    /\ tx.op = "markMessageAsRead" /\ tx.err = AlreadyReadReason
    /\ \E chatCode \in ChatCodes, i \in Indices :
          /\ readReceipts[chatCode][i] # 0
          /\ readReceipts[chatCode][i] < now

\* How c stands to d: whether d is in c's friend list, outgoing index and
\* incoming index.
RelationsOf(c, d) == <<d \in Friends(c), d \in Outgoing(c), d \in Incoming(c)>>

\* Every pair other than {a, b} stands as it did, and every record keeps its
\* name and address.
OtherPairsUnchanged(a, b) ==
    /\ \A c \in Addr, d \in Addr :
          {c, d} # {a, b} => RelationsOf(c, d)' = RelationsOf(c, d)
    /\ \A c \in Addr : /\ userList'[c].name = userList[c].name
                       /\ userList'[c].userAddress = userList[c].userAddress
    /\ UNCHANGED <<usernameTaken, usernameToAddress>>

\* Every channel other than chatCode, and every message and receipt of chatCode
\* at an index other than index, is as it was.
OtherMessagesUnchanged(chatCode, index) ==
    /\ \A other \in ChatCodes \ {chatCode} :
          /\ allMessages'[other] = allMessages[other]
          /\ readReceipts'[other] = readReceipts[other]
    /\ \A i \in 0..(Len(allMessages[chatCode]) - 1) :
          i # index => allMessages'[chatCode][i + 1] = allMessages[chatCode][i + 1]
    /\ \A i \in Indices \ {index} :
          readReceipts'[chatCode][i] = readReceipts[chatCode][i]

\* C38: a successful sendFriendRequest, acceptFriendRequest,
\* rejectFriendRequest, cancelFriendRequest or removeFriend between a and b
\* leaves, as sets, the friend lists and request indices of every other pair,
\* and every message, status and read receipt, as they were; a successful
\* sendMessage, markMessageAsDelivered or markMessageAsRead on the channel of a
\* and b leaves every other channel, every other message of that channel and
\* the whole registry as they were.
C38_Frame ==
    [][\/ tx'.err # OK
       \/ /\ \A a \in Wallets, b \in Addr :
                \/ ~( \/ sendFriendRequestErr(a, b) = OK
                      \/ acceptFriendRequestErr(a, b) = OK
                      \/ rejectFriendRequestErr(a, b) = OK
                      \/ cancelFriendRequestErr(a, b) = OK
                      \/ removeFriendErr(a, b) = OK )
                \/ ~( \/ sendFriendRequest(a, b)
                      \/ acceptFriendRequest(a, b)
                      \/ rejectFriendRequest(a, b)
                      \/ cancelFriendRequest(a, b)
                      \/ removeFriend(a, b) )
                \/ /\ OtherPairsUnchanged(a, b)
                   /\ UNCHANGED <<allMessages, readReceipts>>
          /\ \A a \in Wallets, b \in Addr :
                /\ \A in \in SendInputs(a) :
                      \/ sendMessageErr(a, b, in[1], in[2]) # OK
                      \/ ~sendMessage(a, b, in[1], in[2], in[3])
                      \/ /\ OtherMessagesUnchanged(_getChatCode(a, b),
                                                   Len(allMessages[_getChatCode(a, b)]))
                         /\ UNCHANGED registry
                /\ \A i \in Indices :
                      \/ /\ markMessageAsReadErr(a, b, i) # OK
                         /\ markMessageAsDeliveredErr(a, b, i) # OK
                      \/ /\ ~markMessageAsRead(a, b, i)
                         /\ ~markMessageAsDelivered(a, b, i)
                      \/ /\ OtherMessagesUnchanged(_getChatCode(a, b), i)
                         /\ UNCHANGED registry
      ]_vars

\* A request has just been rejected while another request is pending and two
\* identities are friends: three pairs, one of them touched.
C38_Witness ==
    /\ tx.op = "rejectFriendRequest" /\ tx.err = OK
    /\ \E a \in Wallets, b \in Wallets : a # b /\ MutualFriends(a, b)
    /\ \E a \in Wallets, b \in Wallets : b \in Outgoing(a) /\ a \in Incoming(b)

\* C32 as stated, of the MessageStorage of Message_contract.sol: a channel grows
\* only by a message whose sender and recipient are registered mutual friends,
\* and a send to an identity that is not the sender's friend is refused with
\* the not-friends reason and appends nothing.
C32_AsStated ==
    [][/\ \A chatCode \in ChatCodes :
             Len(allMessages'[chatCode]) > Len(allMessages[chatCode]) =>
                LET from == allMessages'[chatCode][Len(allMessages'[chatCode])].sender
                IN \E to \in Addr :
                      /\ chatCode = _getChatCode(from, to)
                      /\ Registered(from) /\ Registered(to)
                      /\ MutualFriends(from, to)
       /\ tx'.op = "sendMessage" =>
             \A a \in Wallets : \A b \in {w \in Wallets : ~MutualFriends(a, w)} :
                \/ tx'.err = NotFriendsReason /\ allMessages' = allMessages
                \/ ~MessageContract_sendMessage(a, b, "hi")
      ]_vars

\* C33 as stated, of the UserRegistration of part_000: no call made by a alone
\* puts b into a's friend list and a into b's: the edge between a and b does
\* not come into being in a step that is a's addFriend(b).
C33_AsStated ==
    [][\A a \in Wallets : \A b \in Wallets \ {a} :
          \/ MutualFriends(a, b)
          \/ ~MutualFriends(a, b)'
          \/ ~addFriend(a, b)
      ]_vars

\* C39 as stated, of the chat page: once every fetchMessages has settled, the
\* list displayed is the log of the channel between the account and the friend
\* that is selected, in whatever order the calls settled.
C39_AsStated ==
    (page.mounted /\ page.selectedFriend # NoFriend /\ page.fetches = << >>)
        => page.messages =
               formatted(readMessages(Account, page.selectedFriend.address), Account)

====
